---------------------------- MODULE Spec2Model ----------------------------
(***************************************************************************)
(* A model of the operation scheduler (core/transaction_engine.py) and of  *)
(* the swap execution engine (services/swap_service.py).                   *)
(*                                                                         *)
(* Spec      : the TransactionEngine object, from its construction on,     *)
(*             driven through its public methods.                          *)
(* SwapSpec  : one execute_random_swap invocation of a SwapService against *)
(*             a chain whose receipts are chosen by the environment.       *)
(* RouteSpec : the Curve route builder of the SwapService applied to real  *)
(*             routes and to the route templates of a token configuration. *)
(* LookupSpec: Config.get_network_by_name applied to pairs of names.       *)
(* RunSpec   : the TransactionEngine driven by run_continuous_operations,  *)
(*             with the background statistics task; RunLiveSpec adds the   *)
(*             fairness of the event loop.                                 *)
(*                                                                         *)
(* Strings that the code inspects character by character (network names)   *)
(* are sequences of one-character strings.                                 *)
(***************************************************************************)
EXTENDS Integers, Sequences, FiniteSets, TLC

VARIABLES
    \* ---- TransactionEngine ----
    wallets,            \* wallet_manager.wallets (the names of the loaded wallets)
    wallet_stats,       \* self.wallet_stats: name -> counters
    real_time_stats,    \* self.real_time_stats (counters and derived figures)
    operation_weights,  \* self.operation_weights
    services,           \* keys of self.services
    epc,                \* position of the engine call in progress
    cur,                \* locals of the engine call in progress
    ret,                \* outcome of the last engine call
    calls,              \* number of engine calls started
    rpc,                \* position inside run_continuous_operations
    run,                \* locals of run_continuous_operations
    \* ---- SwapService ----
    spc,                \* position inside execute_random_swap
    sw,                 \* locals of the swap invocation
    chain,              \* the account's state on the chain
    subs,               \* transactions submitted during the invocation
    sret                \* what execute_random_swap returned

engineVars == <<wallets, wallet_stats, real_time_stats, operation_weights,
                services, epc, cur, ret, calls, rpc, run>>
swapVars   == <<spc, sw, chain, subs, sret>>
vars       == <<wallets, wallet_stats, real_time_stats, operation_weights,
                services, epc, cur, ret, calls, rpc, run, spc, sw, chain, subs, sret>>

-----------------------------------------------------------------------------
(* Bounds of the model *)

MaxCalls == 2

\* longest real route and most parameter rows handed to _build_arc_route
MaxRouteLen == 11
MaxRows == 5

\* confirmation waits that time out plus sends the node rejects, per
\* execute_random_swap invocation
MaxFaults == 1

-----------------------------------------------------------------------------
(* Character strings *)

UpperCase == <<"A","B","C","D","E","F","G","H","I","J","K","L","M",
               "N","O","P","Q","R","S","T","U","V","W","X","Y","Z">>
LowerCase == <<"a","b","c","d","e","f","g","h","i","j","k","l","m",
               "n","o","p","q","r","s","t","u","v","w","x","y","z">>

LowerChar(c) ==
    IF \E i \in 1..26 : UpperCase[i] = c
    THEN LowerCase[CHOOSE i \in 1..26 : UpperCase[i] = c]
    ELSE c

\* str.lower()
Lower(s) == [i \in 1..Len(s) |-> LowerChar(s[i])]

\* str.strip(): leading and trailing blanks removed
RECURSIVE LStrip(_)
LStrip(s) == IF s # <<>> /\ Head(s) = " " THEN LStrip(Tail(s)) ELSE s
RECURSIVE RStrip(_)
RStrip(s) == IF s # <<>> /\ s[Len(s)] = " " THEN RStrip(SubSeq(s, 1, Len(s) - 1)) ELSE s
Strip(s) == RStrip(LStrip(s))

\* sub in s
Contains(sub, s) ==
    \E i \in 0..(Len(s) - Len(sub)) : SubSeq(s, i + 1, i + Len(sub)) = sub

s_pharos   == <<"p","h","a","r","o","s">>
s_atlantic == <<"a","t","l","a","n","t","i","c">>
s_rise     == <<"r","i","s","e">>
s_opn      == <<"o","p","n">>
s_iopn     == <<"i","o","p","n">>
s_arc      == <<"a","r","c">>

PharosAtlantic == <<"P","h","a","r","o","s"," ","A","t","l","a","n","t","i","c">>
RiseTestnet    == <<"R","i","s","e"," ","T","e","s","t","n","e","t">>
OPNTestnet     == <<"O","P","N"," ","T","e","s","t","n","e","t">>
ArcTestnet     == <<"A","r","c"," ","T","e","s","t","n","e","t">>
BaseSepolia    == <<"B","a","s","e">>
opn_lower      == <<" ","o","p","n"," ">>

\* constants.normalize_network_name
normalize_network_name(network_name) ==
    IF network_name = <<>> THEN <<>>
    ELSE LET normalized == Strip(Lower(network_name)) IN
         IF Contains(s_pharos, normalized) \/ Contains(s_atlantic, normalized)
           THEN PharosAtlantic
         ELSE IF Contains(s_rise, normalized) THEN RiseTestnet
         ELSE IF Contains(s_opn, normalized) \/ Contains(s_iopn, normalized)
           THEN OPNTestnet
         ELSE IF Contains(s_arc, normalized) THEN ArcTestnet
         ELSE network_name

is_pharos_network(n) == normalize_network_name(n) = PharosAtlantic
is_rise_network(n)   == normalize_network_name(n) = RiseTestnet
is_opn_network(n)    == normalize_network_name(n) = OPNTestnet
is_arc_network(n)    == normalize_network_name(n) = ArcTestnet

-----------------------------------------------------------------------------
(* TransactionEngine: configuration and inputs *)

\* the names a caller may pass; "ghost" is never loaded
WalletNames == {"w1", "w2"}
CallerWalletNames == WalletNames \cup {"ghost"}

\* config.networks of the default configuration (names only)
ConfigNetworks == {PharosAtlantic, RiseTestnet, OPNTestnet, ArcTestnet}

\* network names a caller may pass
CallerNetworks == {PharosAtlantic, RiseTestnet, ArcTestnet, BaseSepolia, opn_lower}

\* keys of operation_weights, in insertion order
Kinds == <<"transfer", "swap", "subscribe_stake", "lend_borrow">>
KindSet == {Kinds[i] : i \in 1..Len(Kinds)}

\* operation types a caller may pass to run_single_operation
CallerOperationTypes == KindSet \cup {"liquidity_add"}

ZeroStats == [total_operations |-> 0, successful_operations |-> 0, failed_operations |-> 0]

\* self.real_time_stats of __init__: the counters and the derived figures,
\* operations_per_minute in hundredths and success_rate in hundredths of a
\* percent
ZeroRealTimeStats ==
    [total_operations |-> 0, successful_operations |-> 0, failed_operations |-> 0,
     operations_per_minute |-> 0, success_rate |-> 0]

\* run_continuous_operations has not been called
NoRun == [wallet_names |-> << >>, network_name |-> << >>, shuffled_wallets |-> << >>,
          operation_count |-> 0, expired |-> FALSE]

ZeroWeights == [transfer |-> 0, swap |-> 0, subscribe_stake |-> 0, lend_borrow |-> 0]

NoCall == [method |-> "none", wallet |-> "none", network |-> <<>>,
           operation_type |-> "none", executor |-> "none", invoked |-> "none"]

\* the table of the final else branch, whatever the network
StandardWeights(network_name) ==
    [transfer |-> 50, swap |-> 30, subscribe_stake |-> 20, lend_borrow |-> 0]

\* TransactionEngine.set_network_operation_weights: the table it installs
NetworkWeights(network_name) ==
    LET normalized_network == normalize_network_name(network_name) IN
    IF is_pharos_network(normalized_network)
      THEN [transfer |-> 0, swap |-> 0, subscribe_stake |-> 30, lend_borrow |-> 70]
    ELSE IF is_rise_network(normalized_network)
      THEN [transfer |-> 100, swap |-> 0, subscribe_stake |-> 0, lend_borrow |-> 0]
    ELSE IF is_opn_network(normalized_network)
      THEN [transfer |-> 20, swap |-> 80, subscribe_stake |-> 0, lend_borrow |-> 0]
    ELSE IF is_arc_network(normalized_network)
      THEN [transfer |-> 20, swap |-> 80, subscribe_stake |-> 0, lend_borrow |-> 0]
    ELSE [transfer |-> 50, swap |-> 30, subscribe_stake |-> 20, lend_borrow |-> 0]

\* sum of the first i weights, in key order
RECURSIVE Cumulative(_, _)
Cumulative(choices, i) ==
    IF i = 0 THEN 0 ELSE Cumulative(choices, i - 1) + choices[Kinds[i]]

WeightSum(choices) == Cumulative(choices, Len(Kinds))

\* the walk that compares before it adds the key's weight
weighted_choice_late(choices, r, pick) ==
    IF WeightSum(choices) = 0 THEN pick
    ELSE IF \E i \in 1..Len(Kinds) : r <= Cumulative(choices, i - 1)
      THEN Kinds[CHOOSE i \in 1..Len(Kinds) :
                   /\ r <= Cumulative(choices, i - 1)
                   /\ \A j \in 1..(i - 1) : ~(r <= Cumulative(choices, j - 1))]
    ELSE Kinds[Len(Kinds)]

\* the walk with `r < current` in place of `r <= current`
weighted_choice_strict(choices, r, pick) ==
    IF WeightSum(choices) = 0 THEN pick
    ELSE IF \E i \in 1..Len(Kinds) : r < Cumulative(choices, i)
      THEN Kinds[CHOOSE i \in 1..Len(Kinds) :
                   /\ r < Cumulative(choices, i)
                   /\ \A j \in 1..(i - 1) : ~(r < Cumulative(choices, j))]
    ELSE Kinds[Len(Kinds)]

\* Randomizer.weighted_choice: r is the value of random.uniform(0, total), taken
\* at the integers of [0, total] (between two integers the walk behaves as at
\* the upper one); pick is what random.choice returns for an all-zero table.
weighted_choice(choices, r, pick) ==
    IF WeightSum(choices) = 0 THEN pick
    ELSE IF \E i \in 1..Len(Kinds) : r <= Cumulative(choices, i)
      THEN Kinds[CHOOSE i \in 1..Len(Kinds) :
                   /\ r <= Cumulative(choices, i)
                   /\ \A j \in 1..(i - 1) : ~(r <= Cumulative(choices, j))]
    ELSE Kinds[Len(Kinds)]

\* the dispatch with the two composite branches exchanged
ResolveCrossed(operation_type, coin) ==
    CASE operation_type = "transfer"        -> "transfer"
      [] operation_type = "swap"            -> "swap"
      [] operation_type = "subscribe_stake" -> IF coin = 0 THEN "lend" ELSE "borrow"
      [] operation_type = "lend_borrow"     -> IF coin = 0 THEN "subscribe" ELSE "stake"
      [] OTHER                              -> "none"

\* the executor a drawn operation type resolves to; coin is random.choice of the pair
ResolveExecutor(operation_type, coin) ==
    CASE operation_type = "transfer"        -> "transfer"
      [] operation_type = "swap"            -> "swap"
      [] operation_type = "subscribe_stake" -> IF coin = 0 THEN "subscribe" ELSE "stake"
      [] operation_type = "lend_borrow"     -> IF coin = 0 THEN "lend" ELSE "borrow"
      [] OTHER                              -> "none"

\* swap, lend and borrow are reached through _execute_*_operation, whose
\* try/except turns a raising service into False
WrappedExecutors == {"swap", "lend", "borrow"}

\* execute_random_transfer and execute_random_subscription catch Exception
\* themselves and return False; execute_random_stake has no handler, so an RPC
\* error inside it reaches the engine
RaisingExecutors == {"stake"}

ExecutorOutcomes == {"ok", "fail", "raise"}

\* the values of random.uniform(0, total) that the walk of weighted_choice can
\* tell apart: both endpoints, every cumulative weight and the integer after it
Draws(choices) ==
    {0, WeightSum(choices)} \cup
    {c \in {Cumulative(choices, i) + d : i \in 1..Len(Kinds), d \in {0, 1}} :
        c <= WeightSum(choices)}

Bump(stats, field) == [stats EXCEPT ![field] = @ + 1]

-----------------------------------------------------------------------------
(* TransactionEngine: operations *)

\* WalletManager.load_wallets appends a wallet to wallet_manager.wallets
load_wallets(name) ==
    /\ epc = "idle"
    /\ name \notin wallets
    /\ wallets' = wallets \cup {name}
    /\ UNCHANGED <<wallet_stats, real_time_stats, operation_weights, services,
                   epc, cur, ret, calls>>

\* the networks initialize_services builds services for
NetworksToInit(target_network) ==
    LET filtered == {n \in ConfigNetworks :
                       normalize_network_name(n) = normalize_network_name(target_network)}
    IN IF target_network # <<>> /\ filtered # {} THEN filtered ELSE ConfigNetworks

\* NetworksToInit over the targets a caller may pass, evaluated once
InitTargets == [t \in {<<>>} \cup CallerNetworks |-> NetworksToInit(t)]

\* TransactionEngine.initialize_services
initialize_services(target_network) ==
    /\ epc = "idle"
    /\ services' = services \cup InitTargets[target_network]
    /\ wallet_stats' = [w \in (DOMAIN wallet_stats) \cup wallets |->
                          IF w \in wallets THEN ZeroStats ELSE wallet_stats[w]]
    /\ UNCHANGED <<wallets, real_time_stats, operation_weights, epc, cur, ret, calls>>

\* NetworkWeights over the names handed to the engine, evaluated once
InstalledWeights ==
    [n \in CallerNetworks \cup {OPNTestnet, Lower(ArcTestnet), s_arc, s_opn} |->
        NetworkWeights(n)]

\* the table as it stands, with no default installed
StandingTable(network_name) == operation_weights

\* lines 241-244: the table the draw is made from
ActiveTable(network_name) ==
    IF WeightSum(operation_weights) = 0
    THEN InstalledWeights[network_name]
    ELSE operation_weights

\* TransactionEngine.set_network_operation_weights
set_network_operation_weights(network_name) ==
    /\ epc = "idle"
    /\ operation_weights' = InstalledWeights[network_name]
    /\ UNCHANGED <<wallets, wallet_stats, real_time_stats, services, epc, cur, ret, calls>>

\* execute_operation_cycle, lines 226-286 up to the await of the executor:
\* wallet lookup, the counters "before", the weight check and the draws
CycleBegin(wallet_name, network_name, r, pick, coin) ==
    /\ epc = "idle"
    /\ calls < MaxCalls
    /\ calls' = calls + 1
    /\ UNCHANGED <<wallets, services>>
    /\ IF wallet_name \notin wallets
       THEN \* "Wallet not found": return False
            /\ ret' = "false"
            /\ cur' = [NoCall EXCEPT !.method = "cycle"]
            /\ UNCHANGED <<wallet_stats, real_time_stats, operation_weights, epc>>
       ELSE IF wallet_name \notin DOMAIN wallet_stats
       THEN \* line 238 counts, line 239 raises KeyError; the handler counts a
            \* failure (line 302) and raises KeyError again at line 304
            /\ real_time_stats' = Bump(Bump(real_time_stats, "total_operations"),
                                       "failed_operations")
            /\ ret' = "raised"
            /\ cur' = [NoCall EXCEPT !.method = "cycle"]
            /\ UNCHANGED <<wallet_stats, operation_weights, epc>>
       ELSE LET table == ActiveTable(network_name)
                operation_type == weighted_choice(table, r, pick)
            IN /\ r \in Draws(table)
               /\ real_time_stats' = Bump(real_time_stats, "total_operations")
               /\ wallet_stats' = [wallet_stats EXCEPT ![wallet_name] =
                                      Bump(@, "total_operations")]
               /\ operation_weights' = table
               /\ cur' = [method |-> "cycle", wallet |-> wallet_name,
                          network |-> network_name,
                          operation_type |-> operation_type,
                          executor |-> ResolveExecutor(operation_type, coin),
                          invoked |-> "none"]
               /\ epc' = "executing"
               /\ ret' = "none"

\* what the dispatch of cur.executor yields: the executor invoked (or "none")
\* and "true", "false" or "raise" (an exception that reaches the engine's handler)
Dispatch(outcome) ==
    IF cur.executor = "none" \/ cur.network \notin services
    THEN [invoked |-> "none", result |-> "false"]
    ELSE [invoked |-> cur.executor,
          result  |-> CASE outcome = "ok"   -> "true"
                        [] outcome = "fail" -> "false"
                        [] OTHER -> IF cur.executor \in RaisingExecutors
                                         /\ cur.executor \notin WrappedExecutors
                                    THEN "raise" ELSE "false"]

\* execute_operation_cycle, lines 251-305: the executor returns or raises and
\* the counters "after" are updated
CycleFinish(outcome) ==
    /\ epc = "executing"
    /\ cur.method = "cycle"
    /\ LET d == Dispatch(outcome)
           field == IF d.result = "true" THEN "successful_operations"
                    ELSE "failed_operations"
       IN /\ real_time_stats' = Bump(real_time_stats, field)
          /\ wallet_stats' = [wallet_stats EXCEPT ![cur.wallet] = Bump(@, field)]
          /\ cur' = [NoCall EXCEPT !.method = "cycle", !.invoked = d.invoked]
          /\ ret' = IF d.result = "true" THEN "true" ELSE "false"
    /\ epc' = "idle"
    /\ UNCHANGED <<wallets, operation_weights, services, calls>>

\* run_single_operation that counts a failure for a request it rejects
SingleBeginCounted(wallet_name, network_name, operation_type, coin) ==
    /\ epc = "idle"
    /\ calls < MaxCalls
    /\ calls' = calls + 1
    /\ UNCHANGED <<wallets, services, wallet_stats, operation_weights>>
    /\ IF wallet_name \notin wallets \/ operation_type \notin KindSet
       THEN /\ ret' = "false"
            /\ cur' = [NoCall EXCEPT !.method = "single"]
            /\ real_time_stats' = Bump(real_time_stats, "failed_operations")
            /\ UNCHANGED epc
       ELSE /\ ret' = "none"
            /\ cur' = [method |-> "single", wallet |-> wallet_name,
                       network |-> network_name,
                       operation_type |-> operation_type,
                       executor |-> ResolveExecutor(operation_type, coin),
                       invoked |-> "none"]
            /\ epc' = "executing"
            /\ UNCHANGED real_time_stats

\* run_single_operation, lines 394-441 up to the await of the executor
SingleBegin(wallet_name, network_name, operation_type, coin) ==
    /\ epc = "idle"
    /\ calls < MaxCalls
    /\ calls' = calls + 1
    /\ UNCHANGED <<wallets, services, wallet_stats, real_time_stats, operation_weights>>
    /\ IF wallet_name \notin wallets \/ operation_type \notin KindSet
       THEN \* "Wallet not found" / "Unknown operation type": return False
            /\ ret' = "false"
            /\ cur' = [NoCall EXCEPT !.method = "single"]
            /\ UNCHANGED epc
       ELSE /\ ret' = "none"
            /\ cur' = [method |-> "single", wallet |-> wallet_name,
                       network |-> network_name,
                       operation_type |-> operation_type,
                       executor |-> ResolveExecutor(operation_type, coin),
                       invoked |-> "none"]
            /\ epc' = "executing"

\* run_single_operation, lines 404-461: the executor returns or raises and
\* the counters are updated
SingleFinish(outcome) ==
    /\ epc = "executing"
    /\ cur.method = "single"
    /\ LET d == Dispatch(outcome)
           field == IF d.result = "true" THEN "successful_operations"
                    ELSE "failed_operations"
           known == cur.wallet \in DOMAIN wallet_stats
       IN /\ cur' = [NoCall EXCEPT !.method = "single", !.invoked = d.invoked]
          /\ IF d.result = "raise"
             THEN \* handler, lines 456-461: a failure is counted, nothing was
                  \* added to total_operations
                  /\ real_time_stats' = Bump(real_time_stats, "failed_operations")
                  /\ IF known
                     THEN /\ wallet_stats' = [wallet_stats EXCEPT ![cur.wallet] =
                                                 Bump(@, "failed_operations")]
                          /\ ret' = "false"
                     ELSE /\ UNCHANGED wallet_stats
                          /\ ret' = "raised"
             ELSE IF ~known
             THEN \* line 444 counts, line 445 raises KeyError; the handler counts
                  \* a failure and raises KeyError again at line 460
                  /\ real_time_stats' = Bump(Bump(real_time_stats, "total_operations"),
                                             "failed_operations")
                  /\ UNCHANGED wallet_stats
                  /\ ret' = "raised"
             ELSE /\ real_time_stats' = Bump(Bump(real_time_stats, "total_operations"),
                                             field)
                  /\ wallet_stats' = [wallet_stats EXCEPT ![cur.wallet] =
                                         Bump(Bump(@, "total_operations"), field)]
                  /\ ret' = d.result
    /\ epc' = "idle"
    /\ UNCHANGED <<wallets, operation_weights, services, calls>>

EngineInit ==
    /\ wallets = {}
    /\ wallet_stats = [w \in {} |-> ZeroStats]
    /\ real_time_stats = ZeroRealTimeStats
    /\ operation_weights = ZeroWeights
    /\ services = {}
    /\ epc = "idle"
    /\ cur = NoCall
    /\ ret = "none"
    /\ calls = 0
    /\ rpc = "idle"
    /\ run = NoRun

\* the SwapService is not exercised by the engine specification
SwapIdle ==
    /\ spc = "idle"
    /\ sw = << >>
    /\ chain = << >>
    /\ subs = << >>
    /\ sret = "none"

Init == EngineInit /\ SwapIdle

Next ==
    \/ /\ \E name \in WalletNames : load_wallets(name)
       /\ UNCHANGED <<swapVars, rpc, run>>
    \/ /\ \E target \in {<<>>, opn_lower} : initialize_services(target)
       /\ UNCHANGED <<swapVars, rpc, run>>
    \/ /\ \E n \in CallerNetworks : set_network_operation_weights(n)
       /\ UNCHANGED <<swapVars, rpc, run>>
    \/ /\ \E w \in CallerWalletNames, n \in CallerNetworks :
            \E r \in Draws(ActiveTable(n)), coin \in {0, 1} :
               \E pick \in (IF WeightSum(ActiveTable(n)) = 0 THEN KindSet ELSE {Kinds[1]}) :
                  CycleBegin(w, n, r, pick, coin)
       /\ UNCHANGED <<swapVars, rpc, run>>
    \/ /\ \E outcome \in ExecutorOutcomes : CycleFinish(outcome)
       /\ UNCHANGED <<swapVars, rpc, run>>
    \/ /\ \E w \in CallerWalletNames, n \in CallerNetworks,
            t \in CallerOperationTypes, coin \in {0, 1} : SingleBegin(w, n, t, coin)
       /\ UNCHANGED <<swapVars, rpc, run>>
    \/ /\ \E outcome \in ExecutorOutcomes : SingleFinish(outcome)
       /\ UNCHANGED <<swapVars, rpc, run>>

Spec == Init /\ [][Next]_vars

-----------------------------------------------------------------------------
(* SwapService (src/services/swap_service.py): one execute_random_swap       *)
(* invocation for one wallet.  Amounts are raw integers counted in units of  *)
(* 10^-TokenDecimals of a token; the native coin is counted in the same      *)
(* unit.                                                                     *)

\* decimals() as returned by every token contract of the model
TokenDecimals == 6
OneToken == 10 ^ TokenDecimals

NATIVE == "__native__"

PharosTokens == {"USDT", "WETH", "WBTC"}
ArcTokens == {"USDC", "WUSDC", "wARC", "EURC"}
OPNTokens == {"WOPN", "OPNT", "tUSDT"}
Assets == {NATIVE} \cup PharosTokens \cup ArcTokens \cup OPNTokens

\* tokens of the network's configuration entry, found through the
\* normalized name
get_tokens_for_network(normalized_network) ==
    IF is_pharos_network(normalized_network) THEN PharosTokens
    ELSE IF is_arc_network(normalized_network) THEN ArcTokens
    ELSE IF is_opn_network(normalized_network) THEN OPNTokens
    ELSE {}

\* router_type left by _initialize_router: decided by the chain the service's
\* Web3 instance is connected to, "none" when it is not connected, on Rise
\* and on an unknown chain
RouterTypes == {"none", "iopn", "pharos_bitverse", "arc_universal"}

\* Config.get_network_by_chain_id over the default configuration: the name
\* of the entry, << >> for None (network_name = "")
get_network_by_chain_id(chain_id) ==
    CASE chain_id = 688689   -> PharosAtlantic
      [] chain_id = 11155931 -> RiseTestnet
      [] chain_id = 984      -> OPNTestnet
      [] chain_id = 5042002  -> ArcTestnet
      [] OTHER               -> << >>

\* an initialisation whose last branch installs the Universal router
initialize_with_default(connected, chain_id) ==
    IF ~connected THEN "none"
    ELSE CASE chain_id = 984      -> "iopn"
           [] chain_id = 688689   -> "pharos_bitverse"
           [] chain_id = 11155931 -> "none"
           [] OTHER               -> "arc_universal"

\* SwapService._initialize_router: the router_type it leaves, "none" for None
initialize_router(connected, chain_id) ==
    LET normalized_name == normalize_network_name(get_network_by_chain_id(chain_id))
    IN IF ~connected THEN "none"
       ELSE IF is_opn_network(normalized_name) \/ chain_id = 984 THEN "iopn"
       ELSE IF is_pharos_network(normalized_name) \/ chain_id = 688689
         THEN "pharos_bitverse"
       ELSE IF is_arc_network(normalized_name) \/ chain_id = 5042002
         THEN "arc_universal"
       ELSE "none"

\* self.router_address for each router_type
RouterAddress(router_type) ==
    CASE router_type = "iopn" -> "iopn_router"
      [] router_type = "pharos_bitverse" -> "bitverse_router"
      [] router_type = "arc_universal" -> "universal_router"
      [] OTHER -> "none"

Spenders == {"iopn_router", "bitverse_router", "universal_router", "defi_router"}

\* floor(a * n / d) without forming a * n
MulDiv(a, n, d) == (a \div d) * n + ((a % d) * n) \div d

Max(a, b) == IF a >= b THEN a ELSE b
Min(a, b) == IF a <= b THEN a ELSE b

\* the whole balance, no reserve kept
SpendAll(balance, gas_reserve) == balance

\* max(balance - gas_reserve, 0): what may be spent of the native balance
Spendable(balance, gas_reserve) == Max(balance - gas_reserve, 0)

\* num / den rounded up
CeilDiv(num, den) == (num + den - 1) \div den

\* round(num / den) to the nearest integer, ties to the even one
RoundDiv(num, den) ==
    LET q == num \div den
        r2 == 2 * (num % den)
    IN IF r2 > den THEN q + 1
       ELSE IF r2 < den THEN q
       ELSE IF q % 2 = 0 THEN q ELSE q + 1

\* {sym: bal for sym, bal in balance_snapshot.items()
\*      if sym != '__native__' and bal > 0}, restricted to the network's tokens
IncludeZeroTokens(bal, tokens) == tokens

NonzeroTokens(bal, tokens) == {sym \in tokens : bal[sym] > 0}

\* receipt.status == 1
ReceiptAccepted(status) == status \in {"success", "revert"}

ReceiptRejected(status) == FALSE

ReceiptOk(status) == status = "success"

\* `if not await self.approve_token(...)`: the swap goes on only when the
\* allowance step returned True
ApprovalIgnored(ok) == TRUE

ApprovalGate(ok) == ok

\* the allowance is never found sufficient
AllowanceNeverCovers(current_allowance, amount) == FALSE

\* `if current_allowance >= amount: return True`
AllowanceCovers(current_allowance, amount) == current_allowance >= amount

-----------------------------------------------------------------------------
(* The chain as the service sees it *)

ZeroAllowance == [p \in Assets \X Spenders |-> 0]

\* the maximum representable allowance (2^256 - 1 on the chain), scaled to the
\* model's integers: it covers every amount of the model
MaxUint == 2 ^ 30
FullAllowance == [p \in Assets \X Spenders |-> MaxUint]

NoTx == [kind |-> "none", via |-> "none", router |-> "none", src |-> "none",
         dst |-> "none", amount |-> 0, spender |-> "none", leg |-> 0]

NoApproval == [token |-> "none", amount |-> 0, ok |-> FALSE]

RECURSIVE ApplyApprovals(_, _, _)
\* the allowance after the in-flight approvals that get mined (the first
\* transaction of each nonce wins)
ApplyApprovals(allowance, inflight, seen) ==
    IF inflight = << >> THEN allowance
    ELSE LET t == Head(inflight)
             a == IF t.kind = "approve" /\ t.nonce \notin seen
                  THEN [allowance EXCEPT ![<<t.src, t.spender>>] = t.amount]
                  ELSE allowance
         IN ApplyApprovals(a, Tail(inflight), seen \cup {t.nonce})

\* what the node reports when the service next looks at it: transactions whose
\* wait timed out are either still pending or have been mined meanwhile
Observe(c, settle) ==
    IF settle /\ c.inflight # << >>
    THEN [nonce |-> c.nonce + Cardinality({c.inflight[i].nonce : i \in DOMAIN c.inflight}),
          inflight |-> << >>,
          allowance |-> ApplyApprovals(c.allowance, c.inflight, {})]
    ELSE c

SettleChoices == IF chain.inflight = << >> THEN {FALSE} ELSE BOOLEAN

\* send_raw_transaction either accepts the transaction or raises
SendChoices == IF sw.faults < MaxFaults THEN BOOLEAN ELSE {TRUE}

\* a transaction of nonce n got its receipt: it is mined and every other
\* pending transaction of that nonce is dropped
Mined(c, n) ==
    [c EXCEPT !.nonce = n + 1,
              !.inflight = SelectSeq(@, LAMBDA t : t.nonce # n)]

SetStatus(log, status) == [log EXCEPT ![Len(log)].status = status]

-----------------------------------------------------------------------------
(* Control flow shared by the three network handlers.  spc is the position   *)
(* inside execute_random_swap, sw holds its locals.                          *)

\* return <result> from execute_random_swap
Return(s, result) ==
    /\ spc' = "done"
    /\ sret' = result
    /\ sw' = s
    /\ UNCHANGED <<chain, subs>>

\* continue at <label> with locals s
Goto(s, label) ==
    /\ spc' = label
    /\ sw' = s
    /\ UNCHANGED <<chain, subs, sret>>

\* await self.approve_token(wallet, token, amount) called at <stage>
CallApprove(s, token, amount, stage) ==
    Goto([s EXCEPT !.stage = stage,
                   !.tx = [NoTx EXCEPT !.kind = "approve",
                                       !.via = "approve_token",
                                       !.router = token,
                                       !.src = token,
                                       !.amount = amount,
                                       !.spender = RouterAddress(s.router_type)]],
         "approve")

\* build, sign and send transaction tx at <stage>
CallSend(s, tx, stage) ==
    Goto([s EXCEPT !.stage = stage, !.tx = tx], "send")

SwapTx(kind, router, src, dst, amount, leg) ==
    [NoTx EXCEPT !.kind = kind, !.router = router, !.src = src, !.dst = dst,
                 !.amount = amount, !.leg = leg]

\* the record a submission leaves in the history
Entry(s, tx, nonce) ==
    [kind |-> tx.kind, router |-> tx.router, src |-> tx.src, dst |-> tx.dst,
     amount |-> tx.amount, spender |-> tx.spender, nonce |-> nonce,
     status |-> "pending", leg |-> tx.leg,
     balance |-> IF tx.src \in Assets THEN s.bal[tx.src] ELSE 0,
     allowed |-> /\ s.apr.token = tx.src
                 /\ s.apr.amount = tx.amount
                 /\ s.apr.ok,
     retry |-> s.retry]

InFlight(tx, nonce) ==
    [kind |-> tx.kind, src |-> tx.src, spender |-> tx.spender,
     amount |-> tx.amount, nonce |-> nonce]

\* body shared by approve_token and approve_token_for_spender: allowance
\* check, then approve(spender, amount) with the nonce of the latest block
ApproveSubmit(settle, sendOk) ==
    LET c == Observe(chain, settle)
        tx == sw.tx
        nonce == c.nonce
    IN IF AllowanceCovers(c.allowance[<<tx.src, tx.spender>>], tx.amount)
       THEN /\ spc' = "approved"
            /\ sw' = [sw EXCEPT !.ok = TRUE,
                                !.apr = [token |-> tx.src, amount |-> tx.amount, ok |-> TRUE]]
            /\ chain' = c
            /\ UNCHANGED <<subs, sret>>
       ELSE IF sendOk
       THEN /\ spc' = "approve_wait"
            /\ chain' = [c EXCEPT !.inflight = Append(@, InFlight(tx, nonce))]
            /\ subs' = Append(subs, Entry(sw, tx, nonce))
            /\ UNCHANGED <<sw, sret>>
       ELSE \* send_raw_transaction raised: except -> return False
            /\ spc' = "approved"
            /\ sw' = [sw EXCEPT !.ok = FALSE,
                                !.faults = @ + 1,
                                !.apr = [token |-> tx.src, amount |-> tx.amount, ok |-> FALSE]]
            /\ chain' = c
            /\ UNCHANGED <<subs, sret>>

approve_token(settle, sendOk) ==
    /\ spc = "approve"
    /\ sw.tx.via = "approve_token"
    /\ ApproveSubmit(settle, sendOk)

approve_token_for_spender(settle, sendOk) ==
    /\ spc = "approve"
    /\ sw.tx.via = "approve_token_for_spender"
    /\ ApproveSubmit(settle, sendOk)

ReceiptOutcomes ==
    {"success", "revert"} \cup (IF sw.faults < MaxFaults THEN {"timeout"} ELSE {})

\* wait_for_transaction_receipt(tx_hash, timeout=120) inside approve_token /
\* approve_token_for_spender: status 1 -> True, status 0 -> False,
\* TimeExhausted -> except -> False
ApproveReceipt(outcome) ==
    /\ spc = "approve_wait"
    /\ LET tx == sw.tx
           nonce == subs[Len(subs)].nonce
           ok == ReceiptOk(outcome)
       IN /\ chain' = IF outcome = "timeout" THEN chain
                      ELSE LET m == Mined(chain, nonce)
                           IN IF outcome = "success"
                              THEN [m EXCEPT !.allowance[<<tx.src, tx.spender>>] = tx.amount]
                              ELSE m
          /\ subs' = SetStatus(subs, outcome)
          /\ sw' = [sw EXCEPT !.ok = ok,
                              !.faults = IF outcome = "timeout" THEN @ + 1 ELSE @,
                              !.apr = [token |-> tx.src, amount |-> tx.amount, ok |-> ok]]
    /\ spc' = "approved"
    /\ UNCHANGED sret

\* build_transaction(... 'nonce': get_transaction_count(wallet.address) ...),
\* sign_transaction, send_raw_transaction of a swap, wrap or unwrap
SendSwap(settle, sendOk) ==
    /\ spc = "send"
    /\ LET c == Observe(chain, settle)
           nonce == c.nonce
       IN IF sendOk
          THEN /\ spc' = "wait"
               /\ chain' = [c EXCEPT !.inflight = Append(@, InFlight(sw.tx, nonce))]
               /\ subs' = Append(subs, Entry(sw, sw.tx, nonce))
               /\ sw' = [sw EXCEPT !.apr = NoApproval]
          ELSE /\ spc' = "result"
               /\ chain' = c
               /\ subs' = subs
               /\ sw' = [sw EXCEPT !.res = "exception", !.faults = @ + 1,
                                   !.apr = NoApproval]
    /\ UNCHANGED sret

\* wait_for_transaction_receipt of the swap: a receipt with status 1 or 0, or
\* TimeExhausted
SwapReceipt(outcome) ==
    /\ spc = "wait"
    /\ chain' = IF outcome = "timeout" THEN chain
                ELSE Mined(chain, subs[Len(subs)].nonce)
    /\ subs' = SetStatus(subs, outcome)
    /\ sw' = [sw EXCEPT !.res = IF outcome = "timeout" THEN "exception" ELSE outcome,
                        !.faults = IF outcome = "timeout" THEN @ + 1 ELSE @]
    /\ spc' = "result"
    /\ UNCHANGED sret

-----------------------------------------------------------------------------
(* execute_random_swap and _execute_pharos_swap *)

\* dispatcher: Rise is disabled, an unrecognized network has no swaps
execute_random_swap ==
    /\ spc = "start"
    /\ \E normalized_network \in {normalize_network_name(sw.network_name)} :
          IF is_rise_network(normalized_network) THEN Return(sw, "false")
          ELSE IF is_pharos_network(normalized_network) THEN Goto(sw, "pharos")
          ELSE IF is_arc_network(normalized_network) THEN Goto(sw, "arc")
          ELSE IF is_opn_network(normalized_network) THEN Goto(sw, "opn")
          ELSE Return(sw, "false")

\* amount_presets of _execute_pharos_swap, int(preset * 10 ** decimals)
PresetMin(symbol) ==
    CASE symbol = "USDT" -> 30 * OneToken
      [] symbol = "WETH" -> (8 * OneToken) \div 1000
      [] symbol = "WBTC" -> (25 * OneToken) \div 100000
      [] OTHER -> 0

PresetMax(symbol) ==
    CASE symbol = "USDT" -> 80 * OneToken
      [] symbol = "WETH" -> (25 * OneToken) \div 1000
      [] symbol = "WBTC" -> (12 * OneToken) \div 10000
      [] OTHER -> 0

\* int(round(uniform(min, max), digits) * 10 ** decimals): the two ends and
\* the middle of the range
PresetDraws(symbol) ==
    {PresetMin(symbol), (PresetMin(symbol) + PresetMax(symbol)) \div 2, PresetMax(symbol)}

choose_amount(symbol, balance_raw, drawn) ==
    IF symbol \notin PharosTokens \/ balance_raw <= 0 THEN 0
    ELSE LET min_raw == PresetMin(symbol)
             max_raw == PresetMax(symbol)
             amount_raw == Max(min_raw, Min(drawn, max_raw))
             spend_cap == MulDiv(balance_raw, 95, 100)
         IN IF spend_cap <= 0 THEN 0 ELSE Min(amount_raw, spend_cap)

swap_pairs == {<<"USDT", "WETH">>, <<"USDT", "WBTC">>, <<"WETH", "USDT">>, <<"WBTC", "USDT">>}

\* the directions the for loop has still to visit
KeepPairs(pairs, p) == pairs

RemainingPairs(pairs, p) == pairs \ {p}

\* checks and balance snapshot before the loop
PharosBegin ==
    /\ spc = "pharos"
    /\ IF sw.router_type # "pharos_bitverse" \/ ~sw.online
       THEN Return(sw, "false")
       ELSE Goto([sw EXCEPT !.pairs = swap_pairs], "pharos_loop")

\* one iteration of `for from_symbol, to_symbol in swap_pairs` up to the
\* approval; random.shuffle makes any remaining pair the next one
PharosPair(p, drawn) ==
    /\ spc = "pharos_loop"
    /\ sw.pairs # {}
    /\ p \in sw.pairs
    /\ LET from_symbol == p[1]
           to_symbol == p[2]
           token_balances == NonzeroTokens(sw.bal, PharosTokens)
           balance_raw == IF from_symbol \in token_balances THEN sw.bal[from_symbol] ELSE 0
           amount_in == choose_amount(from_symbol, balance_raw, drawn)
           s == [sw EXCEPT !.pairs = RemainingPairs(sw.pairs, p),
                           !.from_symbol = from_symbol,
                           !.to_symbol = to_symbol,
                           !.amount_in = amount_in]
       IN IF balance_raw <= 0 \/ amount_in <= 0
          THEN Goto([sw EXCEPT !.pairs = RemainingPairs(sw.pairs, p)], "pharos_loop")
          ELSE CallApprove(s, from_symbol, amount_in, "pharos")

\* the loop ran out of directions
PharosExhausted ==
    /\ spc = "pharos_loop"
    /\ sw.pairs = {}
    /\ Return(sw, "false")

\* `if not await self.approve_token(...): continue`, else router.execute
PharosApproved ==
    /\ spc = "approved"
    /\ sw.stage = "pharos"
    /\ IF ApprovalGate(sw.ok)
       THEN CallSend(sw, SwapTx("swap", "bitverse_router", sw.from_symbol,
                                sw.to_symbol, sw.amount_in, 1), "pharos")
       ELSE Goto(sw, "pharos_loop")

\* status 1 returns True; a revert or an exception moves to the next pair
PharosResult ==
    /\ spc = "result"
    /\ sw.stage = "pharos"
    /\ IF ReceiptOk(sw.res) THEN Return(sw, "true") ELSE Goto(sw, "pharos_loop")

-----------------------------------------------------------------------------
(* _execute_opn_swap, _wrap_opn_to_wopn, _perform_opn_swap *)

\* wallet.web3.to_wei(0.02, 'ether')
OpnGasReserve == (2 * OneToken) \div 100

\* _pick_amount: the balance share pct percent, rounded to <digits> decimal
\* places of a token, then capped
pick_amount(balance_raw, decimals, pct, digits, max_spend) ==
    LET step == IF digits < decimals THEN 10 ^ (decimals - digits) ELSE 1
        amount_raw == RoundDiv(balance_raw * pct, 100 * step) * step
        capped == Min(amount_raw, max_spend)
    IN IF capped <= 0 THEN Min(max_spend, 1) ELSE capped

available_targets == {"OPNT", "WOPN", "tUSDT"}
reverse_symbols == {"OPNT", "WOPN", "tUSDT", "tBNB"}

NativePct == {3, 7}
NativeDigits == {3, 4, 5}
TokenPct == {4, 11}
TokenDigits == {2, 3, 4, 5}

\* opn_balance_after - opn_balance_before as the first leg can leave it
GainedDraws == {0, OneToken \div 100, OneToken}

\* the second call of a leg: deposit() on WOPN or swapExactOPNForTokens
OpnNativeTx(target_symbol, amount_in, leg) ==
    IF target_symbol = "WOPN"
    THEN SwapTx("wrap", "WOPN", NATIVE, "WOPN", amount_in, leg)
    ELSE SwapTx("swap", "iopn_router", NATIVE, target_symbol, amount_in, leg)

\* checks, balance snapshot and choice of the direction
OpnBegin(prefer_native_to_tokens) ==
    /\ spc = "opn"
    /\ IF sw.router_type # "iopn" \/ ~sw.online
       THEN Return(sw, "false")
       ELSE LET nonzero_tokens == NonzeroTokens(sw.bal, OPNTokens)
                reverse_candidates == nonzero_tokens \cap reverse_symbols
                has_native_for_swap == sw.bal[NATIVE] > 0
                has_tokens_for_swap == reverse_candidates # {}
            IN IF ~has_native_for_swap /\ ~has_tokens_for_swap
               THEN \* "No balance available for any OPN swap direction"
                    Return([sw EXCEPT !.stage = "no_balance"], "false")
               ELSE IF prefer_native_to_tokens /\ has_native_for_swap
               THEN Goto(sw, "opn_native")
               ELSE IF has_tokens_for_swap
               THEN Goto(sw, "opn_token")
               ELSE Goto(sw, "opn_native")

\* direction native_to_token
OpnNative(pct, digits, target_symbol) ==
    /\ spc = "opn_native"
    /\ LET spendable_balance == Spendable(sw.bal[NATIVE], OpnGasReserve)
           amount_in == pick_amount(spendable_balance, TokenDecimals, pct, digits,
                                    spendable_balance)
       IN IF spendable_balance <= 0 \/ amount_in <= 0
          THEN Return(sw, "false")
          ELSE CallSend([sw EXCEPT !.from_symbol = NATIVE,
                                   !.to_symbol = target_symbol,
                                   !.amount_in = amount_in,
                                   !.pct = pct,
                                   !.digits = digits,
                                   !.native_to_token = TRUE],
                        OpnNativeTx(target_symbol, amount_in, 1), "opn_final")

\* direction token_to_token, first leg: token -> OPN
OpnToken(from_symbol, target_symbol, pct, digits) ==
    /\ spc = "opn_token"
    /\ from_symbol \in NonzeroTokens(sw.bal, OPNTokens) \cap reverse_symbols
    /\ target_symbol \in
          ((available_targets \cup {"OPN"}) \ {from_symbol})
             \ (IF from_symbol = "WOPN" THEN {"OPN"} ELSE {})
    /\ LET token_balance == sw.bal[from_symbol]
           amount_in == pick_amount(token_balance, TokenDecimals, pct, digits,
                                    token_balance)
           s == [sw EXCEPT !.from_symbol = from_symbol,
                           !.to_symbol = target_symbol,
                           !.amount_in = amount_in,
                           !.pct = pct,
                           !.digits = digits,
                           !.native_to_token = FALSE]
       IN IF from_symbol = "WOPN"
          THEN CallSend(s, SwapTx("unwrap", "WOPN", "WOPN", NATIVE, amount_in, 1),
                        "opn_leg1")
          ELSE CallApprove(s, from_symbol, amount_in, "opn_leg1")

\* `if not await self.approve_token(...): return False`, else
\* swapExactTokensForOPN
OpnApproved ==
    /\ spc = "approved"
    /\ sw.stage = "opn_leg1"
    /\ IF ApprovalGate(sw.ok)
       THEN CallSend(sw, SwapTx("swap", "iopn_router", sw.from_symbol, NATIVE,
                                sw.amount_in, 1), "opn_leg1")
       ELSE Return(sw, "false")

\* after the first leg: stop on a failure, return True when OPN was the
\* target, else spend what was gained (less the gas reserve) on the second leg
OpnLeg1Result(gained) ==
    /\ spc = "result"
    /\ sw.stage = "opn_leg1"
    /\ IF ~ReceiptOk(sw.res)
       THEN Return(sw, "false")
       ELSE LET gained_native == IF sw.from_symbol = "WOPN" THEN sw.amount_in ELSE gained
                spendable_native == Spendable(gained_native, OpnGasReserve)
            IN IF sw.to_symbol = "OPN" THEN Return(sw, "true")
               ELSE IF spendable_native <= 0 THEN Return(sw, "false")
               ELSE CallSend([sw EXCEPT !.gained = gained_native],
                             OpnNativeTx(sw.to_symbol, spendable_native, 2),
                             "opn_final")

\* _wrap_opn_to_wopn / _perform_opn_swap: True on status 1, False on a revert
\* or an exception
OpnFinalResult ==
    /\ spc = "result"
    /\ sw.stage = "opn_final"
    /\ IF ReceiptOk(sw.res) THEN Return(sw, "true") ELSE Return(sw, "false")

-----------------------------------------------------------------------------
(* _execute_arc_swap, _execute_arc_defi_swap *)

\* wallet.web3.to_wei(0.05, 'ether')
ArcGasReserve == (5 * OneToken) \div 100

native_symbol == "USDC"

\* str.upper() on the token symbols of the model
upper(symbol) ==
    CASE symbol = "wARC" -> "WARC"
      [] symbol = "tUSDT" -> "TUSDT"
      [] OTHER -> symbol

\* min_amount_tokens, int(min * 10 ** decimals); 0 for a symbol not in it
MinAmountRaw(symbol) ==
    CASE symbol = "wARC" -> OneToken \div 100
      [] symbol = "dUSDT" -> OneToken \div 100
      [] symbol = "bbToken" -> OneToken \div 100
      [] symbol = "BRID" -> (5 * OneToken) \div 100
      [] symbol = "TST" -> (2 * OneToken) \div 10
      [] symbol = "CA4F" -> OneToken
      [] symbol = "EURC" -> OneToken
      [] symbol = "rUSDC" -> (3 * OneToken) \div 10
      [] OTHER -> 0

apply_min_amount(symbol, amount) == Max(amount, MinAmountRaw(symbol))

\* keys of _get_arc_route_templates for the configured tokens
arc_tokens ==
    {t \in {"WUSDC", "rUSDC", "wARC", "dUSDT", "BRID", "bbToken", "EURC"} :
        t \in ArcTokens /\ "WUSDC" \in ArcTokens}
       \cup {t \in {"TST", "CA4F"} : t \in ArcTokens /\ {"WUSDC", "EURC"} \subseteq ArcTokens}

curve_blacklist == {"TST", "EURC", "CA4F"}
allowed_forward == arc_tokens \ curve_blacklist
allowed_universal_symbols == {"USDC", "WUSDC", "SYN", "USDT"}
allowed_tokens == ArcTokens \cap allowed_universal_symbols
native_targets == {"SYN", "USDT", "WUSDC"} \cap allowed_tokens
defi_targets == {"EURC", "SRAC", "RACS", "SACS", "KITTY", "DOGG"} \cap ArcTokens

\* random.uniform(0.3, 1.5), in hundredths of a percent: the largest share
PctDraws == {150}

\* int(round(uniform(5, 5.5), 3) * 10 ** decimals) after the clamp
DefiDraws == {5 * OneToken, (55 * OneToken) \div 10}

\* int(balance * swap_percentage)
ShareOf(balance, pct) == MulDiv(balance, pct, 10000)

\* arc_reroll() without the _retry guard: always one more pass
ArcRerollAgain(s) == Goto([s EXCEPT !.retry = TRUE], "arc")

\* arc_reroll(): one more pass of _execute_arc_swap, unless this is it
ArcReroll(s) ==
    IF s.retry THEN Return(s, "false")
    ELSE Goto([s EXCEPT !.retry = TRUE], "arc")

\* the DeFi entry check with the threshold of allow_defi_router
MeetsAllowThreshold(usdc_balance) == usdc_balance >= 40 * OneToken

\* _execute_arc_defi_swap, lines 827-832: usdc_balance >= min_balance_required
MeetsDefiMinimum(usdc_balance) == usdc_balance >= 80 * OneToken

\* checks, balance snapshot, and the DeFi router when the roll selects it
\* (_execute_arc_defi_swap up to its approval)
ArcBegin(defi_roll, drawn) ==
    /\ spc = "arc"
    /\ IF sw.router_type # "arc_universal" \/ ~sw.online \/ "WUSDC" \notin ArcTokens
       THEN Return(sw, "false")
       ELSE LET nonzero_tokens == NonzeroTokens(sw.bal, ArcTokens)
                usdc_balance == IF "USDC" \in nonzero_tokens THEN sw.bal["USDC"] ELSE 0
                allow_defi_router == usdc_balance >= 40 * OneToken
            IN IF allow_defi_router /\ defi_roll
                  /\ MeetsDefiMinimum(usdc_balance) /\ defi_targets # {}
               THEN Goto([sw EXCEPT !.stage = "arc_defi",
                                    !.amount_in = drawn,
                                    !.tx = [NoTx EXCEPT
                                              !.kind = "approve",
                                              !.via = "approve_token_for_spender",
                                              !.router = "USDC",
                                              !.src = "USDC",
                                              !.amount = drawn,
                                              !.spender = "defi_router"]],
                         "approve")
               ELSE IF allow_defi_router /\ defi_roll
               THEN \* _execute_arc_defi_swap returned False before its approval
                    Goto([sw EXCEPT !.stage = "defi_skipped"], "arc_dir")
               ELSE Goto(sw, "arc_dir")

\* _execute_arc_defi_swap after the approval
ArcDefiApproved(target_symbol) ==
    /\ spc = "approved"
    /\ sw.stage = "arc_defi"
    /\ target_symbol \in defi_targets
    /\ IF ApprovalGate(sw.ok)
       THEN CallSend(sw, SwapTx("swap", "defi_router", "USDC", target_symbol,
                                sw.amount_in, 1), "arc_defi")
       ELSE Goto(sw, "arc_dir")

\* success_defi returns True, anything else falls back to Curve/Universal
ArcDefiResult ==
    /\ spc = "result"
    /\ sw.stage = "arc_defi"
    /\ IF ReceiptOk(sw.res) THEN Return(sw, "true") ELSE Goto(sw, "arc_dir")

\* the direction, the source asset and the first amount
ArcDirection(roll_native_to_token, picked, pct) ==
    /\ spc = "arc_dir"
    /\ LET candidates == NonzeroTokens(sw.bal, ArcTokens) \cap {"SYN", "USDT", "WUSDC"}
           native_balance == sw.bal[NATIVE]
           use_native == IF roll_native_to_token THEN native_balance > 0
                         ELSE candidates = {}
           balance == IF use_native THEN native_balance ELSE
                      IF picked \in candidates THEN sw.bal[picked] ELSE 0
           amount_in == ShareOf(balance, pct)
       IN /\ candidates # {} => picked \in candidates
          /\ candidates = {} => picked = "none"
          /\ IF balance <= 0
             THEN \* "No balance available for Arc swap"
                  Return([sw EXCEPT !.stage = "no_balance"], "false")
             ELSE IF amount_in <= 0
             THEN Return(sw, "false")
             ELSE Goto([sw EXCEPT !.native_to_token = use_native,
                                  !.from_symbol = IF use_native THEN native_symbol ELSE picked,
                                  !.amount_in = amount_in,
                                  !.pct = pct],
                       "arc_curve")

\* the Curve branch up to its approval or its exchange()
ArcCurve(choice) ==
    /\ spc = "arc_curve"
    /\ LET nonzero_tokens == NonzeroTokens(sw.bal, ArcTokens)
           candidates == (arc_tokens \cap nonzero_tokens) \ curve_blacklist
           n2t == sw.native_to_token
           use_curve == arc_tokens # {} /\ IF n2t THEN allowed_forward # {}
                                            ELSE candidates # {}
           from_symbol == IF n2t THEN sw.from_symbol ELSE choice
           spendable == IF n2t THEN Spendable(sw.bal[NATIVE], ArcGasReserve)
                        ELSE sw.bal[from_symbol]
           with_min == apply_min_amount(from_symbol, ShareOf(spendable, sw.pct))
           at_least_one == IF with_min <= 0 THEN Min(spendable, 1) ELSE with_min
           amount_in == IF n2t /\ at_least_one > spendable THEN spendable
                        ELSE at_least_one
           s == [sw EXCEPT !.from_symbol = from_symbol,
                           !.to_symbol = IF n2t THEN choice ELSE native_symbol,
                           !.amount_in = amount_in]
       IN /\ use_curve => choice \in (IF n2t THEN allowed_forward ELSE candidates)
          /\ ~use_curve => choice = "none"
          /\ IF ~use_curve THEN Goto(sw, "arc_universal")
             ELSE IF spendable <= 0 \/ amount_in <= 0 THEN Return(sw, "false")
             ELSE IF n2t
             THEN CallSend(s, SwapTx("swap", "curve_router", NATIVE, choice,
                                     amount_in, 1), "arc_curve")
             ELSE IF upper(from_symbol) \notin allowed_universal_symbols
                     /\ upper(from_symbol) \notin arc_tokens
             THEN Return(s, "false")
             ELSE CallApprove(s, from_symbol, amount_in, "arc_curve")

\* `if not await self.approve_token(...): return False`, else Curve exchange()
ArcCurveApproved ==
    /\ spc = "approved"
    /\ sw.stage = "arc_curve"
    /\ IF ApprovalGate(sw.ok)
       THEN CallSend(sw, SwapTx("swap", "curve_router", sw.from_symbol, NATIVE,
                                sw.amount_in, 1), "arc_curve")
       ELSE Return(sw, "false")

\* status 1 returns True, a revert falls through to the Universal Router, an
\* exception reaches the outer handler
ArcCurveResult ==
    /\ spc = "result"
    /\ sw.stage = "arc_curve"
    /\ IF ReceiptOk(sw.res) THEN Return(sw, "true")
       ELSE IF sw.res = "exception" THEN ArcReroll(sw)
       ELSE Goto(sw, "arc_universal")

\* the Universal Router branch up to its approval, its withdraw() or its
\* execute()
ArcUniversal(choice) ==
    /\ spc = "arc_universal"
    /\ IF sw.native_to_token
       THEN /\ native_targets # {} => choice \in native_targets
            /\ native_targets = {} => choice = "none"
            /\ IF native_targets = {} THEN Return(sw, "false")
               ELSE LET target_symbol == IF sw.from_symbol \in native_targets
                                         THEN sw.from_symbol ELSE choice
                    IN CallSend([sw EXCEPT !.to_symbol = target_symbol],
                                SwapTx("swap", "universal_router", NATIVE,
                                       target_symbol, sw.amount_in, 1), "arc_uni")
       ELSE /\ choice = "none"
            /\ IF sw.from_symbol \notin allowed_tokens THEN ArcReroll(sw)
               ELSE IF sw.from_symbol = "WUSDC"
               THEN CallSend(sw, SwapTx("unwrap", "WUSDC", "WUSDC", NATIVE,
                                        sw.amount_in, 1), "arc_withdraw")
               ELSE CallApprove(sw, sw.from_symbol, sw.amount_in, "arc_uni")

\* WUSDC.withdraw: status 1 returns True, a revert goes on to the approval of
\* the Universal Router path, an exception reaches the outer handler
ArcWithdrawResult ==
    /\ spc = "result"
    /\ sw.stage = "arc_withdraw"
    /\ IF ReceiptOk(sw.res) THEN Return(sw, "true")
       ELSE IF sw.res = "exception" THEN ArcReroll(sw)
       ELSE CallApprove(sw, sw.from_symbol, sw.amount_in, "arc_uni")

\* `if not await self.approve_token(...): return False`, else execute()
ArcUniApproved ==
    /\ spc = "approved"
    /\ sw.stage = "arc_uni"
    /\ IF ApprovalGate(sw.ok)
       THEN CallSend(sw, SwapTx("swap", "universal_router", sw.from_symbol, NATIVE,
                                sw.amount_in, 1), "arc_uni")
       ELSE Return(sw, "false")

\* status 1 returns True; a revert or an exception goes to the Curve fallback
ArcUniResult ==
    /\ spc = "result"
    /\ sw.stage = "arc_uni"
    /\ IF ReceiptOk(sw.res) THEN Return(sw, "true") ELSE Goto(sw, "arc_fallback")

\* the Curve fallback up to its approval or its exchange()
ArcFallback(choice) ==
    /\ spc = "arc_fallback"
    /\ LET nonzero_tokens == NonzeroTokens(sw.bal, ArcTokens)
           n2t == sw.native_to_token
           candidates == IF n2t THEN allowed_forward ELSE arc_tokens \cap nonzero_tokens
           from_symbol == IF n2t THEN sw.from_symbol ELSE choice
           spendable == IF n2t THEN Spendable(sw.bal[NATIVE], ArcGasReserve)
                        ELSE IF choice \in Assets THEN sw.bal[choice] ELSE 0
           with_min == apply_min_amount(from_symbol, ShareOf(spendable, sw.pct))
           at_least_one == IF with_min <= 0 THEN Min(spendable, 1) ELSE with_min
           amount_in == IF n2t /\ at_least_one > spendable THEN spendable
                        ELSE at_least_one
           s == [sw EXCEPT !.from_symbol = from_symbol,
                           !.to_symbol = IF n2t THEN choice ELSE native_symbol,
                           !.amount_in = amount_in]
       IN /\ candidates # {} => choice \in candidates
          /\ candidates = {} => choice = "none"
          /\ IF arc_tokens = {} \/ candidates = {} \/ spendable <= 0
             THEN Return(sw, "false")
             ELSE IF n2t
             THEN CallSend(s, SwapTx("swap", "curve_router", NATIVE, choice,
                                     amount_in, 1), "arc_fb")
             ELSE CallApprove(s, from_symbol, amount_in, "arc_fb")

\* `if not await self.approve_token(...): return False`, else exchange()
ArcFbApproved ==
    /\ spc = "approved"
    /\ sw.stage = "arc_fb"
    /\ IF ApprovalGate(sw.ok)
       THEN CallSend(sw, SwapTx("swap", "curve_router", sw.from_symbol, NATIVE,
                                sw.amount_in, 1), "arc_fb")
       ELSE Return(sw, "false")

\* status 1 returns True; a revert and an exception both end in arc_reroll()
ArcFbResult ==
    /\ spc = "result"
    /\ sw.stage = "arc_fb"
    /\ IF ReceiptOk(sw.res) THEN Return(sw, "true") ELSE ArcReroll(sw)

-----------------------------------------------------------------------------
(* The invocations explored *)

ZeroBalances == [a \in Assets |-> 0]

\* balance snapshots of a Pharos wallet
PharosUsdt == [ZeroBalances EXCEPT !["USDT"] = 100 * OneToken]
PharosAll == [ZeroBalances EXCEPT !["USDT"] = 10 * OneToken, !["WETH"] = OneToken,
                                  !["WBTC"] = OneToken \div 1000]

\* balance snapshots of an Arc wallet; USDC is the native coin and its ERC-20
\* view
ArcNative == [ZeroBalances EXCEPT ![NATIVE] = 10 * OneToken, !["USDC"] = 10 * OneToken]
ArcDust == [ZeroBalances EXCEPT ![NATIVE] = OneToken \div 100, !["USDC"] = OneToken \div 100]
ArcWrapped == [ZeroBalances EXCEPT !["WUSDC"] = 5 * OneToken, !["wARC"] = OneToken \div 200]
ArcRich == [ZeroBalances EXCEPT ![NATIVE] = 100 * OneToken, !["USDC"] = 100 * OneToken]
ArcTiny == [ZeroBalances EXCEPT ![NATIVE] = 50, !["USDC"] = 50]
ArcOnlyWarc == [ZeroBalances EXCEPT !["wARC"] = OneToken]
ArcMid == [ZeroBalances EXCEPT ![NATIVE] = 50 * OneToken, !["USDC"] = 50 * OneToken]
\* a wallet holding WUSDC and EURC and none of the native coin
ArcEurc == [ZeroBalances EXCEPT !["WUSDC"] = 5 * OneToken, !["EURC"] = 5 * OneToken]

\* balance snapshots of an OPN wallet
OpnNativeOnly == [ZeroBalances EXCEPT ![NATIVE] = OneToken]
OpnDust == [ZeroBalances EXCEPT ![NATIVE] = OneToken \div 100]
OpnTokensOnly == [ZeroBalances EXCEPT !["WOPN"] = 2 * OneToken, !["tUSDT"] = 50 * OneToken]

Invocation(network_name, chain_id, online, bal, allowance) ==
    [network_name |-> network_name, chain_id |-> chain_id,
     router_type |-> initialize_router(TRUE, chain_id),
     online |-> online, bal |-> bal, allowance |-> allowance]

\* the invocations explored: per network an empty wallet, wallets holding the
\* native coin only, tokens only and dust, a service whose router does not
\* belong to the network, and a wallet that cannot connect
Invocations ==
    { Invocation(PharosAtlantic, 688689, TRUE, ZeroBalances, ZeroAllowance),
      Invocation(PharosAtlantic, 688689, TRUE, PharosUsdt, ZeroAllowance),
      Invocation(PharosAtlantic, 688689, TRUE, PharosAll, FullAllowance),
      Invocation(PharosAtlantic, 688689, FALSE, PharosUsdt, ZeroAllowance),
      Invocation(PharosAtlantic, 84532, TRUE, PharosUsdt, ZeroAllowance),
      Invocation(ArcTestnet, 5042002, TRUE, ZeroBalances, ZeroAllowance),
      Invocation(ArcTestnet, 5042002, TRUE, ArcNative, ZeroAllowance),
      Invocation(ArcTestnet, 5042002, TRUE, ArcDust, ZeroAllowance),
      Invocation(ArcTestnet, 5042002, TRUE, ArcTiny, ZeroAllowance),
      Invocation(ArcTestnet, 5042002, TRUE, ArcWrapped, ZeroAllowance),
      Invocation(ArcTestnet, 5042002, TRUE, ArcRich, ZeroAllowance),
      Invocation(ArcTestnet, 5042002, TRUE, ArcOnlyWarc, ZeroAllowance),
      Invocation(ArcTestnet, 5042002, TRUE, ArcMid, ZeroAllowance),
      Invocation(ArcTestnet, 5042002, TRUE, ArcEurc, ZeroAllowance),
      Invocation(ArcTestnet, 5042002, FALSE, ArcNative, ZeroAllowance),
      Invocation(ArcTestnet, 984, TRUE, ArcNative, ZeroAllowance),
      Invocation(ArcTestnet, 84532, TRUE, ArcNative, ZeroAllowance),
      Invocation(opn_lower, 984, TRUE, ZeroBalances, ZeroAllowance),
      Invocation(opn_lower, 984, TRUE, OpnNativeOnly, ZeroAllowance),
      Invocation(opn_lower, 984, TRUE, OpnDust, ZeroAllowance),
      Invocation(opn_lower, 984, TRUE, OpnTokensOnly, ZeroAllowance),
      Invocation(opn_lower, 984, TRUE, OpnTokensOnly, FullAllowance),
      Invocation(opn_lower, 984, FALSE, OpnNativeOnly, ZeroAllowance),
      Invocation(opn_lower, 84532, TRUE, OpnNativeOnly, ZeroAllowance),
      Invocation(RiseTestnet, 11155931, TRUE, OpnNativeOnly, ZeroAllowance),
      Invocation(BaseSepolia, 84532, TRUE, OpnNativeOnly, ZeroAllowance) }

NoSwap ==
    [network_name |-> << >>, chain_id |-> 0, router_type |-> "none", online |-> FALSE,
     bal |-> ZeroBalances, stage |-> "none", retry |-> FALSE, pairs |-> {},
     from_symbol |-> "none", to_symbol |-> "none", amount_in |-> 0,
     native_to_token |-> FALSE, pct |-> 0, tx |-> NoTx, ok |-> FALSE,
     res |-> "none", apr |-> NoApproval, gained |-> 0, faults |-> 0,
     digits |-> 0]

SwapInit ==
    /\ EngineInit
    /\ spc = "start"
    /\ \E i \in Invocations :
          /\ sw = [NoSwap EXCEPT !.network_name = i.network_name,
                                 !.chain_id = i.chain_id,
                                 !.router_type = i.router_type,
                                 !.online = i.online,
                                 !.bal = i.bal]
          /\ chain = [nonce |-> 0, inflight |-> << >>, allowance |-> i.allowance]
    /\ subs = << >>
    /\ sret = "none"

SwapNext ==
    \/ /\ execute_random_swap
       /\ UNCHANGED engineVars
    \/ /\ \E settle \in SettleChoices, sendOk \in SendChoices : approve_token(settle, sendOk)
       /\ UNCHANGED engineVars
    \/ /\ \E settle \in SettleChoices, sendOk \in SendChoices :
             approve_token_for_spender(settle, sendOk)
       /\ UNCHANGED engineVars
    \/ /\ \E outcome \in ReceiptOutcomes : ApproveReceipt(outcome)
       /\ UNCHANGED engineVars
    \/ /\ \E settle \in SettleChoices, sendOk \in SendChoices : SendSwap(settle, sendOk)
       /\ UNCHANGED engineVars
    \/ /\ \E outcome \in ReceiptOutcomes : SwapReceipt(outcome)
       /\ UNCHANGED engineVars
    \/ /\ PharosBegin
       /\ UNCHANGED engineVars
    \/ /\ \E p \in swap_pairs : \E drawn \in PresetDraws(p[1]) : PharosPair(p, drawn)
       /\ UNCHANGED engineVars
    \/ /\ PharosExhausted
       /\ UNCHANGED engineVars
    \/ /\ PharosApproved
       /\ UNCHANGED engineVars
    \/ /\ PharosResult
       /\ UNCHANGED engineVars
    \/ /\ \E prefer \in BOOLEAN : OpnBegin(prefer)
       /\ UNCHANGED engineVars
    \/ /\ \E pct \in NativePct, digits \in NativeDigits, target \in available_targets :
             OpnNative(pct, digits, target)
       /\ UNCHANGED engineVars
    \/ /\ \E from \in OPNTokens, target \in available_targets \cup {"OPN"},
             pct \in TokenPct, digits \in TokenDigits : OpnToken(from, target, pct, digits)
       /\ UNCHANGED engineVars
    \/ /\ OpnApproved
       /\ UNCHANGED engineVars
    \/ /\ \E gained \in GainedDraws : OpnLeg1Result(gained)
       /\ UNCHANGED engineVars
    \/ /\ OpnFinalResult
       /\ UNCHANGED engineVars
    \/ /\ \E defi_roll \in BOOLEAN, drawn \in DefiDraws : ArcBegin(defi_roll, drawn)
       /\ UNCHANGED engineVars
    \/ /\ \E target \in defi_targets : ArcDefiApproved(target)
       /\ UNCHANGED engineVars
    \/ /\ ArcDefiResult
       /\ UNCHANGED engineVars
    \/ /\ \E roll \in BOOLEAN, picked \in ArcTokens \cup {"none"}, pct \in PctDraws :
             ArcDirection(roll, picked, pct)
       /\ UNCHANGED engineVars
    \/ /\ \E choice \in ArcTokens \cup {"none"} : ArcCurve(choice)
       /\ UNCHANGED engineVars
    \/ /\ ArcCurveApproved
       /\ UNCHANGED engineVars
    \/ /\ ArcCurveResult
       /\ UNCHANGED engineVars
    \/ /\ \E choice \in ArcTokens \cup {"none"} : ArcUniversal(choice)
       /\ UNCHANGED engineVars
    \/ /\ ArcWithdrawResult
       /\ UNCHANGED engineVars
    \/ /\ ArcUniApproved
       /\ UNCHANGED engineVars
    \/ /\ ArcUniResult
       /\ UNCHANGED engineVars
    \/ /\ \E choice \in ArcTokens \cup {"none"} : ArcFallback(choice)
       /\ UNCHANGED engineVars
    \/ /\ ArcFbApproved
       /\ UNCHANGED engineVars
    \/ /\ ArcFbResult
       /\ UNCHANGED engineVars

SwapSpec == SwapInit /\ [][SwapNext]_vars

-----------------------------------------------------------------------------
(* Claims about the TransactionEngine, checked under Spec *)

Conserved(stats) ==
    stats.successful_operations + stats.failed_operations = stats.total_operations

C2_NoExceptionEscapes ==
    ret # "raised"

-----------------------------------------------------------------------------
(* Claims about the SwapService, checked under SwapSpec *)

SwapKinds == {"swap", "wrap", "unwrap"}

\* the swap, wrap and unwrap submissions of the invocation, in order
SwapSubs == SelectSeq(subs, LAMBDA e : e.kind \in SwapKinds)

MatchingRouter ==
    LET n == normalize_network_name(sw.network_name)
    IN \/ is_pharos_network(n) /\ sw.router_type = "pharos_bitverse"
       \/ is_arc_network(n) /\ sw.router_type = "arc_universal"
       \/ is_opn_network(n) /\ sw.router_type = "iopn"

\* C3: execute_random_swap returns true only if a swap, wrap or unwrap
\* transaction submitted during the same invocation got a receipt with
\* success status; every other path returns false.
C3_TrueOnlyAfterSuccessReceipt ==
    /\ sret = "true" =>
          \E i \in DOMAIN subs :
              subs[i].kind \in SwapKinds /\ subs[i].status = "success"
    /\ spc = "done" => sret \in {"true", "false"}
    /\ (spc = "done" /\ \A i \in DOMAIN subs :
                           subs[i].kind \in SwapKinds => subs[i].status # "success")
          => sret = "false"

\* a re-rolled Arc pass returned true
C3_Witness ==
    /\ spc = "done"
    /\ sret = "true"
    /\ sw.retry
    /\ Len(SwapSubs) >= 2

\* C4: every token-sourced call of a router is submitted only after the
\* allowance step for that token and that amount returned success; after an
\* approval that reverted or timed out the attempt submits no swap.
C4_SwapOnlyAfterAllowance ==
    /\ \A i \in DOMAIN subs :
          (subs[i].kind = "swap" /\ subs[i].src # NATIVE) => subs[i].allowed
    /\ (spc = "send" /\ sw.tx.kind = "swap" /\ sw.tx.src # NATIVE) =>
          /\ sw.apr.ok
          /\ sw.apr.token = sw.tx.src
          /\ sw.apr.amount = sw.tx.amount

\* an approval was mined with success and the swap of the same token and
\* amount followed; and elsewhere an approval failed
C4_Witness ==
    /\ Len(subs) >= 2
    /\ subs[Len(subs) - 1].kind = "approve"
    /\ subs[Len(subs) - 1].status = "success"
    /\ subs[Len(subs)].kind = "swap"
    /\ subs[Len(subs)].src = subs[Len(subs) - 1].src
    /\ subs[Len(subs)].amount = subs[Len(subs) - 1].amount
    /\ \E i \in DOMAIN subs : subs[i].kind = "approve" /\ subs[i].status = "revert"

\* C5: no two transactions of the account that are in flight at the same time
\* carry the same nonce, also after a confirmation wait timed out.
C5_InFlightNoncesDistinct ==
    \A i, j \in DOMAIN chain.inflight :
        i # j => chain.inflight[i].nonce # chain.inflight[j].nonce

MaxSubmissions(normalized_network) ==
    IF is_pharos_network(normalized_network) THEN Cardinality(swap_pairs)
    ELSE IF is_arc_network(normalized_network) THEN 10
    ELSE IF is_opn_network(normalized_network) THEN 2
    ELSE 0

C7_NoFailedRouteAgain ==
    \A i, j \in DOMAIN SwapSubs :
        (i < j /\ SwapSubs[i].status = "revert") =>
            <<SwapSubs[i].router, SwapSubs[i].src, SwapSubs[i].dst>>
                # <<SwapSubs[j].router, SwapSubs[j].src, SwapSubs[j].dst>>

\* C8: when the first swap submission is mined and reverts and the next one
\* succeeds, execute_random_swap returns true and exactly two swap submissions
\* were made.
C8_FallbackSuccess ==
    (/\ Len(SwapSubs) >= 2
     /\ SwapSubs[1].status = "revert"
     /\ SwapSubs[2].status = "success")
        => /\ Len(SwapSubs) = 2
           /\ spc = "done" => sret = "true"
           /\ sret # "false"

\* Curve reverted, the Universal Router succeeded, and the call returned
C8_Witness ==
    /\ spc = "done"
    /\ sret = "true"
    /\ Len(SwapSubs) = 2
    /\ SwapSubs[1].status = "revert"
    /\ SwapSubs[1].router = "curve_router"
    /\ SwapSubs[2].status = "success"
    /\ SwapSubs[2].router = "universal_router"

\* C9: with a zero native balance and zero balances of all configured tokens
\* execute_random_swap submits no transaction, approval or swap, and returns
\* false.
C9_NoBalanceNoTransaction ==
    sw.bal = ZeroBalances =>
        /\ subs = << >>
        /\ chain.inflight = << >>
        /\ spc \notin {"approve", "approve_wait", "send", "wait"}
        /\ spc = "done" => sret = "false"

\* an empty wallet went through the handler of its network and got false
C9_Witness ==
    /\ spc = "done"
    /\ sret = "false"
    /\ sw.bal = ZeroBalances
    /\ sw.online
    /\ sw.router_type = "iopn"
    /\ MatchingRouter

\* C10: no swap is submitted whose input amount exceeds the snapshotted
\* balance of the asset it spends, also after a per-token minimum amount was
\* applied (the second OPN leg spends what the first leg gained and is left
\* out).
C10_AmountWithinBalance ==
    \A i \in DOMAIN subs :
        (subs[i].kind \in SwapKinds /\ subs[i].leg = 1) =>
            subs[i].amount <= subs[i].balance


\* the native balance an entry's value is taken from: the snapshot, plus, for
\* the second OPN leg, what the first leg brought in
NativeBalanceAt(e) == e.balance + (IF e.leg = 2 THEN sw.gained ELSE 0)

\* the claimed reserve of the invocation's network
ClaimedReserve ==
    IF is_opn_network(sw.network_name) THEN OpnGasReserve ELSE ArcGasReserve

Picked == is_opn_network(sw.network_name) /\ sw.digits > 0

\* the balance _pick_amount was given
PickedFrom ==
    IF sw.native_to_token THEN Spendable(sw.bal[NATIVE], OpnGasReserve)
    ELSE IF sw.from_symbol \in Assets THEN sw.bal[sw.from_symbol] ELSE 0

\* the precision step of the round() in _pick_amount
PickedStep == 10 ^ (TokenDecimals - sw.digits)

\* C12 (as stated): the amount after rounding to the precision step is at most
\* the amount before rounding, balance * pct / 100.
C12_RoundingNeverIncreases ==
    Picked => 100 * sw.amount_in <= PickedFrom * sw.pct

\* C12 (amended): the amount is the drawn share rounded to the nearest
\* precision step, so it lies within half a step of the share, above it or
\* below it, and it is then capped at the balance it was drawn from (1 unit
\* when the rounding gave nothing).
C12_RoundsToNearestThenCaps ==
    Picked =>
        /\ sw.amount_in <= PickedFrom
        /\ \/ sw.amount_in = PickedFrom
           \/ sw.amount_in = 1
           \/ /\ 2 * (100 * sw.amount_in - PickedFrom * sw.pct) <= 100 * PickedStep
              /\ 2 * (PickedFrom * sw.pct - 100 * sw.amount_in) <= 100 * PickedStep

\* a share that the rounding raised: 7% of 0.98 is 0.0686, sent as 0.069
C12_Witness ==
    /\ Picked
    /\ sw.native_to_token
    /\ sw.amount_in # 1
    /\ sw.amount_in < PickedFrom
    /\ 100 * sw.amount_in > PickedFrom * sw.pct
    /\ \E i \in DOMAIN subs : subs[i].amount = sw.amount_in /\ subs[i].src = NATIVE


\* upper = min(policy.max, balance * cap) of the Pharos amount policy: the
\* preset maximum and 95% of the balance
PolicyUpper(symbol, balance_raw) ==
    Min(PresetMax(symbol), MulDiv(balance_raw, 95, 100))

\* C13: when upper = min(policy.max, balance * cap) is below policy.min, no
\* amount is selected and nothing (no approval, no swap) is submitted for
\* that asset; in particular no amount below the configured minimum is sent.
C13_NoneBelowMinimum ==
    is_pharos_network(sw.network_name) =>
        \A i \in DOMAIN subs :
            subs[i].src \in PharosTokens =>
                /\ ~(PolicyUpper(subs[i].src, sw.bal[subs[i].src]) < PresetMin(subs[i].src))
                /\ subs[i].amount >= PresetMin(subs[i].src)


\* C14: two calls of the allowance routine in sequence for the same token,
\* spender and amount, the first confirmed with success and no approval in
\* between, issue one approval transaction: the second call finds the
\* allowance sufficient and submits nothing.
C14_AllowanceIdempotent ==
    \A i, j \in DOMAIN subs :
        ~ /\ i < j
          /\ subs[i].kind = "approve"
          /\ subs[j].kind = "approve"
          /\ subs[i].status = "success"
          /\ subs[i].src = subs[j].src
          /\ subs[i].spender = subs[j].spender
          /\ subs[i].amount = subs[j].amount
          /\ \A k \in (i + 1)..(j - 1) : subs[k].kind # "approve"

\* the second call returned True without a transaction: the approval of the
\* first call is in the history, a swap was sent after it, and the routine
\* has just answered for the same token, spender and amount
C14_Witness ==
    /\ spc = "approved"
    /\ sw.ok
    /\ Len(subs) >= 2
    /\ subs[Len(subs)].kind \in SwapKinds
    /\ \E i \in DOMAIN subs :
          /\ subs[i].kind = "approve"
          /\ subs[i].status = "success"
          /\ subs[i].src = sw.tx.src
          /\ subs[i].spender = sw.tx.spender
          /\ subs[i].amount = sw.tx.amount
          /\ sw.tx.kind = "approve"
          /\ \A k \in (i + 1)..Len(subs) : subs[k].kind # "approve"


\* C15: every approval transaction the allowance routine submits approves the
\* maximum representable value, not the amount requested.
C15_ApprovesMaximum ==
    \A i \in DOMAIN subs :
        subs[i].kind = "approve" => subs[i].amount = MaxUint


-----------------------------------------------------------------------------
(* Further claims about the TransactionEngine, checked under Spec *)

\* exactly one of successful_operations and failed_operations grew, by one
OneOutcomeCounted(before, after) ==
    /\ after.total_operations = before.total_operations
    /\ \/ /\ after.successful_operations = before.successful_operations + 1
          /\ after.failed_operations = before.failed_operations
       \/ /\ after.successful_operations = before.successful_operations
          /\ after.failed_operations = before.failed_operations + 1

\* only total_operations grew, by one
AttemptCounted(before, after) ==
    /\ after.total_operations = before.total_operations + 1
    /\ after.successful_operations = before.successful_operations
    /\ after.failed_operations = before.failed_operations

\* a step that starts execute_operation_cycle for a wallet the wallet manager
\* holds (the call for an unknown wallet returns False at once)
CycleCalled ==
    /\ epc = "idle"
    /\ calls' = calls + 1
    /\ cur'.method = "cycle"
    /\ ~(ret' = "false" /\ epc' = "idle")

\* a step in which execute_operation_cycle returns from its executor
CycleReturns ==
    /\ epc = "executing"
    /\ cur.method = "cycle"
    /\ epc' = "idle"

\* C16: every execute_operation_cycle call for a wallet that exists adds
\* exactly 1 to the global and to the wallet's total_operations before any
\* executor is invoked, and by its return has added exactly 1 to exactly one
\* of successful_operations and failed_operations, globally and for the
\* wallet, also when the executor raises.
C16_CycleCountsOnce ==
    [][ /\ CycleCalled =>
             /\ epc' = "executing"
             /\ cur'.invoked = "none"
             /\ AttemptCounted(real_time_stats, real_time_stats')
             /\ cur'.wallet \in DOMAIN wallet_stats
             /\ AttemptCounted(wallet_stats[cur'.wallet], wallet_stats'[cur'.wallet])
        /\ CycleReturns =>
             /\ ret' \in {"true", "false"}
             /\ OneOutcomeCounted(real_time_stats, real_time_stats')
             /\ OneOutcomeCounted(wallet_stats[cur.wallet], wallet_stats'[cur.wallet])
      ]_vars


\* only transfer has a positive weight
TransferOnly(table) ==
    /\ table.transfer > 0
    /\ table.swap = 0
    /\ table.subscribe_stake = 0
    /\ table.lend_borrow = 0

\* C17: when the table the cycle draws from gives a positive weight to
\* transfer only, the cycle resolves to the transfer executor and invokes no
\* swap, subscribe, stake, lend or borrow executor, whatever the draw.
C17_TransferOnlyInvokesTransfer ==
    [][ /\ (CycleCalled /\ epc' = "executing" /\ TransferOnly(operation_weights')) =>
              /\ cur'.operation_type = "transfer"
              /\ cur'.executor = "transfer"
        /\ (CycleReturns /\ TransferOnly(operation_weights)) =>
              cur'.invoked \in {"none", "transfer"}
      ]_vars

\* a cycle on an initialized network drew from a transfer-only table and is
\* about to invoke the transfer executor
C17_Witness ==
    /\ epc = "executing"
    /\ cur.method = "cycle"
    /\ TransferOnly(operation_weights)
    /\ cur.executor = "transfer"
    /\ cur.network \in services


\* a step in which execute_operation_cycle reaches its weighted draw
CycleDraws == CycleCalled /\ epc' = "executing"

\* C18: whenever execute_operation_cycle performs its weighted draw, the table
\* it draws from has a positive sum; a table that sums to zero when the cycle
\* starts is replaced by the default table of the cycle's network before the
\* draw.
C18_DrawFromNonzeroTable ==
    [][ CycleDraws =>
          /\ WeightSum(operation_weights') > 0
          /\ WeightSum(operation_weights) = 0 =>
                operation_weights' = InstalledWeights[cur'.network]
          /\ WeightSum(operation_weights) > 0 =>
                operation_weights' = operation_weights
      ]_vars

\* the first call of the engine is a cycle, it reached its draw, and the table
\* is the default of its network
C18_Witness ==
    /\ epc = "executing"
    /\ cur.method = "cycle"
    /\ calls = 1
    /\ WeightSum(operation_weights) > 0
    /\ operation_weights = NetworkWeights(cur.network)
    /\ is_pharos_network(cur.network)

\* C19: the action kind of a cycle on network N is drawn from N's own weight
\* table: a table installed for one network is never the table a cycle on
\* another network draws from.
C19_DrawFromOwnTable ==
    (epc = "executing" /\ cur.method = "cycle") =>
        operation_weights = NetworkWeights(cur.network)


\* the weights the claim gives to the four recognized network classes
RecognizedShape(n, t) ==
    /\ is_pharos_network(n) =>
          t.transfer = 0 /\ t.swap = 0 /\ t.subscribe_stake > 0 /\ t.lend_borrow > 0
    /\ is_rise_network(n) => TransferOnly(t)
    /\ (is_opn_network(n) \/ is_arc_network(n)) =>
          t.transfer > 0 /\ t.swap > 0 /\ t.subscribe_stake = 0 /\ t.lend_borrow = 0

Recognized(n) ==
    is_pharos_network(n) \/ is_rise_network(n) \/ is_opn_network(n) \/ is_arc_network(n)

\* as stated: an unrecognized network gets four positive weights
ShapeAsStated(n, t) ==
    /\ RecognizedShape(n, t)
    /\ ~Recognized(n) =>
          t.transfer > 0 /\ t.swap > 0 /\ t.subscribe_stake > 0 /\ t.lend_borrow > 0

\* as installed: an unrecognized network gets transfer, swap and
\* subscribe-or-stake, and no lend-or-borrow
ShapeAsInstalled(n, t) ==
    /\ RecognizedShape(n, t)
    /\ ~Recognized(n) =>
          t.transfer > 0 /\ t.swap > 0 /\ t.subscribe_stake > 0 /\ t.lend_borrow = 0

\* whether the table installed for each network has the shape as stated, and
\* the shape as installed
StatedShapes == [n \in CallerNetworks |-> ShapeAsStated(n, InstalledWeights[n])]
InstalledShapes == [n \in CallerNetworks |-> ShapeAsInstalled(n, InstalledWeights[n])]

\* a step that installs a table: the cycle's install on a zero-sum table, or
\* a call of set_network_operation_weights
Installs == operation_weights' # operation_weights

\* C20 (as stated): set_network_operation_weights installs, for Pharos, zero
\* weight on transfer and swap and positive weight on subscribe-or-stake and
\* lend-or-borrow; for Rise, positive weight on transfer only; for OPN and
\* Arc, positive weight on transfer and swap only; for an unrecognized
\* network, positive weight on all four kinds.
C20_WeightsByClass ==
    [][ Installs =>
          /\ \E n \in CallerNetworks :
                operation_weights' = InstalledWeights[n] /\ StatedShapes[n]
          /\ CycleDraws =>
                /\ operation_weights' = InstalledWeights[cur'.network]
                /\ StatedShapes[cur'.network]
      ]_vars

\* C20 (amended): as above, except that the default for an unrecognized
\* network gives positive weight to transfer, swap and subscribe-or-stake and
\* zero weight to lend-or-borrow.
C20_WeightsByClassInstalled ==
    [][ Installs =>
          /\ \E n \in CallerNetworks :
                operation_weights' = InstalledWeights[n] /\ InstalledShapes[n]
          /\ CycleDraws =>
                /\ operation_weights' = InstalledWeights[cur'.network]
                /\ InstalledShapes[cur'.network]
      ]_vars

\* a cycle on an unrecognized network installed the default and drew from it
C20_Witness ==
    /\ epc = "executing"
    /\ cur.method = "cycle"
    /\ calls = 1
    /\ ~Recognized(cur.network)
    /\ operation_weights = NetworkWeights(cur.network)
    /\ operation_weights.lend_borrow = 0
    /\ operation_weights.subscribe_stake > 0


\* position of a key in table order
KeyIndex(k) == CHOOSE i \in 1..Len(Kinds) : Kinds[i] = k

\* k is the first key in table order whose cumulative weight meets or exceeds r
FirstKeyReaching(table, r, k) ==
    /\ k \in KindSet
    /\ Cumulative(table, KeyIndex(k)) >= r
    /\ \A j \in 1..(KeyIndex(k) - 1) : Cumulative(table, j) < r

\* the tables the engine can hold: the one of __init__ and the installed ones
TablesHeld == {ZeroWeights} \cup {InstalledWeights[n] : n \in CallerNetworks}

\* for each such table: over a positive total, every draw of [0, total] gives
\* the first key reaching it; over an all-zero table the result is a key
ChoiceIsFirstReaching ==
    [t \in TablesHeld |->
        IF WeightSum(t) > 0
        THEN \A r \in 0..WeightSum(t) :
                FirstKeyReaching(t, r, weighted_choice(t, r, Kinds[1]))
        ELSE \A pick \in KindSet : weighted_choice(t, 0, pick) \in KindSet]

\* for each such table: the keys that are first to reach some draw of [0, total]
KeysReached ==
    [t \in TablesHeld |->
        {k \in KindSet : \E r \in 0..WeightSum(t) : FirstKeyReaching(t, r, k)}]

\* C21: over a table with positive total, weighted_choice returns a key of the
\* table, the first in table order whose cumulative weight meets or exceeds
\* the draw, for every draw of [0, total]; over an all-zero table it returns
\* a key of the table.  Checked on every table the engine holds and on the
\* key every cycle drew.
C21_WeightedChoiceFirstReaching ==
    /\ operation_weights \in TablesHeld
    /\ ChoiceIsFirstReaching[operation_weights]
    /\ (epc = "executing" /\ cur.method = "cycle") =>
          cur.operation_type \in KeysReached[operation_weights]

\* a cycle on the Pharos table drew 0: the first key, transfer, has cumulative
\* weight 0, which meets the draw, and is the key returned
C21_Witness ==
    /\ epc = "executing"
    /\ cur.method = "cycle"
    /\ operation_weights.transfer = 0
    /\ WeightSum(operation_weights) > 0
    /\ cur.operation_type = "transfer"
    /\ weighted_choice(operation_weights, 0, "swap") = "transfer"


\* the executors a drawn kind may lead to
Members(operation_type) ==
    CASE operation_type = "transfer"        -> {"transfer"}
      [] operation_type = "swap"            -> {"swap"}
      [] operation_type = "subscribe_stake" -> {"subscribe", "stake"}
      [] operation_type = "lend_borrow"     -> {"lend", "borrow"}
      [] OTHER                              -> {}

\* C22: a cycle chooses exactly one executor, a member of the drawn kind (for
\* a composite kind one of its two members), and when it returns it has
\* invoked that one executor or none at all.
C22_OneExecutorPerCycle ==
    [][ CycleReturns =>
          /\ Cardinality({cur.executor} \cap Members(cur.operation_type)) = 1
          /\ cur'.invoked \in {"none", cur.executor} ]_vars

\* a cycle that drew lend_borrow has returned after invoking borrow
C22_Witness ==
    /\ epc = "idle"
    /\ cur.method = "cycle"
    /\ cur.invoked = "borrow"


-----------------------------------------------------------------------------
(* Further claims about the SwapService, checked under SwapSpec *)

\* chain identifiers for which _initialize_router installs a router
RouterChains == {984, 688689, 5042002}

\* C23: a service created for a chain identifier of no router family has no
\* router type, and a request on it, whatever network it names, goes no
\* further than the entry check of a handler, submits nothing and returns
\* false.
C23_UninitializedServiceReturnsFalse ==
    sw.chain_id \notin RouterChains =>
        /\ sw.router_type = "none"
        /\ subs = << >>
        /\ chain.inflight = << >>
        /\ spc \in {"start", "pharos", "arc", "opn", "done"}
        /\ sret \in {"none", "false"}
        /\ spc = "done" => sret = "false"

\* a service of an unknown chain was asked for an Arc swap, reached
\* _execute_arc_swap and returned false
C23_Witness ==
    /\ sw.chain_id \notin RouterChains
    /\ is_arc_network(sw.network_name)
    /\ sw.bal # ZeroBalances
    /\ spc = "done"
    /\ sret = "false"


-----------------------------------------------------------------------------
(* _build_arc_route and _get_arc_route_templates.  An address is a string,   *)
(* a parameter row a 4-tuple of numbers, a RouteSpec a record of the two     *)
(* padded arrays.                                                            *)

zero_address == "0x0000"
arc_native_placeholder == "0xEeee"
ZeroRow == <<0, 0, 0, 0>>

\* capacity of the route array and of the parameter matrix
RouteCapacity == 11
ParamCapacity == 5

\* list(reversed(seq))
Reversed(seq) == [i \in 1..Len(seq) |-> seq[Len(seq) + 1 - i]]

\* seq + [filler] * max(capacity - len(seq), 0)
Padded(seq, filler, capacity) ==
    seq \o [i \in 1..Max(capacity - Len(seq), 0) |-> filler]

\* seq[:capacity]
Cut(seq, capacity) == SubSeq(seq, 1, Min(Len(seq), capacity))

\* any(row)
AnyNonzero(row) == \E i \in 1..Len(row) : row[i] # 0

\* a builder that cuts to capacity and does not pad
build_arc_route_unpadded(base_route, base_params, reverse) ==
    [route |-> Cut(base_route, RouteCapacity),
     swap_params |-> Cut(base_params, ParamCapacity)]

\* SwapService._build_arc_route
build_arc_route(base_route, base_params, reverse) ==
    IF reverse
    THEN LET trimmed_route == SelectSeq(base_route, LAMBDA addr : addr # zero_address)
             reversed_route == Padded(Reversed(trimmed_route), zero_address, RouteCapacity)
             used_params == SelectSeq(base_params, AnyNonzero)
             reversed_params == Padded(Reversed(used_params), ZeroRow, ParamCapacity)
         IN [route |-> Cut(reversed_route, RouteCapacity),
             swap_params |-> Cut(reversed_params, ParamCapacity)]
    ELSE [route |-> Cut(Padded(base_route, zero_address, RouteCapacity), RouteCapacity),
          swap_params |-> Cut(Padded(base_params, ZeroRow, ParamCapacity), ParamCapacity)]

\* tokens of the Arc configuration that have a Curve template; a token's
\* address is written as its symbol
CurveSymbols == {"WUSDC", "rUSDC", "wARC", "dUSDT", "BRID", "bbToken", "EURC", "TST", "CA4F"}

\* pools[...] of _get_arc_route_templates
Pool(name) == <<"pool", name>>

\* base_route and base_params of each template
TemplateBase(symbol) ==
    LET native == arc_native_placeholder
        wrap == <<0, 0, 8, 0>>
        one(pool, token, row) ==
            [route |-> <<native, "WUSDC", "WUSDC", Pool(pool), token>>,
             params |-> <<wrap, row>>]
        two(pool, token, row) ==
            [route |-> <<native, "WUSDC", "WUSDC", Pool("eurc"), "EURC", Pool(pool), token>>,
             params |-> <<wrap, <<1, 0, 1, 10>>, row>>]
    IN CASE symbol = "WUSDC"   -> [route |-> <<native, "WUSDC", "WUSDC">>, params |-> <<wrap>>]
         [] symbol = "rUSDC"   -> one("rusdc", "rUSDC", <<0, 1, 1, 10>>)
         [] symbol = "wARC"    -> one("warc", "wARC", <<0, 1, 1, 20>>)
         [] symbol = "dUSDT"   -> one("dusdt", "dUSDT", <<0, 1, 1, 10>>)
         [] symbol = "BRID"    -> one("brid", "BRID", <<0, 1, 1, 20>>)
         [] symbol = "bbToken" -> one("bbtoken", "bbToken", <<0, 1, 1, 10>>)
         [] symbol = "EURC"    -> one("eurc", "EURC", <<1, 0, 1, 10>>)
         [] symbol = "TST"     -> two("tst", "TST", <<0, 1, 1, 20>>)
         [] symbol = "CA4F"    -> two("ca4f", "CA4F", <<1, 0, 1, 20>>)

\* the keys of the templates built for a token configuration
TemplateKeys(tokens) ==
    {t \in CurveSymbols \cap tokens :
        /\ "WUSDC" \in tokens
        /\ t \in {"TST", "CA4F"} => "EURC" \in tokens}

\* SwapService._get_arc_route_templates
get_arc_route_templates(tokens) ==
    [t \in TemplateKeys(tokens) |->
        LET base == TemplateBase(t)
        IN [forward |-> build_arc_route(base.route, base.params, FALSE),
            reverse |->
                IF t = "rUSDC"
                THEN build_arc_route(
                        <<"rUSDC", Pool("rusdc"), "WUSDC", "WUSDC", arc_native_placeholder>>,
                        <<(<<1, 0, 1, 10>>), (<<0, 0, 8, 0>>)>>, FALSE)
                ELSE build_arc_route(base.route, base.params, TRUE)]]

\* real routes handed to the builder: the first k addresses of a hop chain
SampleChains ==
    { <<arc_native_placeholder, "WUSDC", "WUSDC", Pool("eurc"), "EURC", Pool("tst"), "TST">>,
      <<"CA4F", Pool("ca4f"), "EURC", Pool("eurc"), "WUSDC">> }

SampleRoute(c, k) == [i \in 1..k |-> c[((i - 1) % Len(c)) + 1]]

\* the first m rows of a parameter matrix, none of them all zero
SampleParams(m) == [i \in 1..m |-> <<i % 2, (i + 1) % 2, 1, 10 * i>>]

\* token configurations of the Arc network entry: every Curve token, the
\* tokens of ArcTokens, and a configuration without WUSDC
TokenConfigs == {CurveSymbols \cup {"USDC"}, ArcTokens, {"USDC", "wARC", "EURC"}}

RouteInit ==
    /\ EngineInit
    /\ chain = << >>
    /\ subs = << >>
    /\ sret = "none"
    /\ spc = "route"
    /\ \E c \in SampleChains, k \in 0..MaxRouteLen, m \in 0..MaxRows,
          tokens \in TokenConfigs :
          sw = [base_route |-> SampleRoute(c, k), base_params |-> SampleParams(m),
                tokens |-> tokens, reverse |-> FALSE, symbol |-> "none",
                native_to_token |-> FALSE,
                route_data |-> [route |-> << >>, swap_params |-> << >>]]

\* a call of _build_arc_route on the real route
BuildRoute(reverse) ==
    /\ spc = "route"
    /\ spc' = "built"
    /\ sw' = [sw EXCEPT !.reverse = reverse,
                        !.route_data = build_arc_route(sw.base_route, sw.base_params,
                                                       reverse)]
    /\ UNCHANGED <<chain, subs, sret>>

\* _execute_arc_swap, lines 1046-1073: the templates are built and route_data
\* is the forward or the reverse RouteSpec of the chosen symbol
SelectTemplate(symbol, native_to_token) ==
    /\ spc = "route"
    /\ LET templates == get_arc_route_templates(sw.tokens)
       IN /\ symbol \in DOMAIN templates
          /\ sw' = [sw EXCEPT !.symbol = symbol,
                              !.native_to_token = native_to_token,
                              !.route_data = IF native_to_token
                                             THEN templates[symbol].forward
                                             ELSE templates[symbol].reverse]
    /\ spc' = "selected"
    /\ UNCHANGED <<chain, subs, sret>>

RouteNext ==
    \/ /\ \E reverse \in BOOLEAN : BuildRoute(reverse)
       /\ UNCHANGED engineVars
    \/ /\ \E symbol \in CurveSymbols, native_to_token \in BOOLEAN :
             SelectTemplate(symbol, native_to_token)
       /\ UNCHANGED engineVars

RouteSpec == RouteInit /\ [][RouteNext]_vars

-----------------------------------------------------------------------------
(* Claims about the Curve routes, checked under RouteSpec *)

\* the real addresses and rows of a padded RouteSpec
RealRoute(spec) == SelectSeq(spec.route, LAMBDA addr : addr # zero_address)
RealParams(spec) == SelectSeq(spec.swap_params, AnyNonzero)

\* the RouteSpec got from a forward one by merely reversing the order of its
\* addresses and of its parameter rows
MerelyReversed(forward) ==
    [route |-> Padded(Reversed(RealRoute(forward)), zero_address, RouteCapacity),
     swap_params |-> Padded(Reversed(RealParams(forward)), ZeroRow, ParamCapacity)]

\* C24: the reverse RouteSpec selected for a token -> native swap is never the
\* forward RouteSpec of the same template with its addresses and its
\* parameter rows merely put in reverse order.
C24_ReverseNotMereReversal ==
    (spc = "selected" /\ ~sw.native_to_token) =>
        sw.route_data #
            MerelyReversed(get_arc_route_templates(sw.tokens)[sw.symbol].forward)

\* all that remains of seq after its first n entries is the filler
FilledFrom(seq, n, filler) == \A i \in (n + 1)..Len(seq) : seq[i] = filler

\* C25: for a real route of k <= 11 addresses with m <= 5 parameter rows the
\* forward RouteSpec has exactly 11 route entries and 5 rows, its first k
\* entries and first m rows are the real route and rows in order, and every
\* other entry is the zero address or the all-zero row.
C25_ForwardPadding ==
    (/\ spc = "built"
     /\ ~sw.reverse
     /\ Len(sw.base_route) <= RouteCapacity
     /\ Len(sw.base_params) <= ParamCapacity) =>
        /\ Len(sw.route_data.route) = RouteCapacity
        /\ Len(sw.route_data.swap_params) = ParamCapacity
        /\ SubSeq(sw.route_data.route, 1, Len(sw.base_route)) = sw.base_route
        /\ SubSeq(sw.route_data.swap_params, 1, Len(sw.base_params)) = sw.base_params
        /\ FilledFrom(sw.route_data.route, Len(sw.base_route), zero_address)
        /\ FilledFrom(sw.route_data.swap_params, Len(sw.base_params), ZeroRow)

\* a real route of 3 addresses with 1 row was built forward
C25_Witness ==
    /\ spc = "built"
    /\ ~sw.reverse
    /\ Len(sw.base_route) = 3
    /\ Len(sw.base_params) = 1
    /\ Len(sw.route_data.route) = RouteCapacity
    /\ sw.route_data.route[4] = zero_address


-----------------------------------------------------------------------------
(* Claims about candidate selection and the DeFi router, under SwapSpec *)

\* the tokens a handler can take as the source of a swap
SwappableSources(network_name) ==
    IF is_arc_network(network_name)
      THEN (ArcTokens \cap {"SYN", "USDT", "WUSDC"}) \cup (arc_tokens \ curve_blacklist)
    ELSE IF is_opn_network(network_name) THEN OPNTokens \cap reverse_symbols
    ELSE {}

\* the request reached candidate selection with something to swap
HoldsSwappable ==
    /\ MatchingRouter
    /\ sw.online
    /\ \/ sw.bal[NATIVE] > 0
       \/ \E t \in SwappableSources(sw.network_name) : sw.bal[t] > 0

\* C26: on Arc and OPN, an account that holds the native asset or a token the
\* handler can swap is never turned away by candidate selection with the
\* no-balance failure, and the source of a chosen direction has a nonzero
\* balance.
C26_FallsBackToFundedSide ==
    (HoldsSwappable /\ (is_arc_network(sw.network_name) \/ is_opn_network(sw.network_name))) =>
        /\ sw.stage # "no_balance"
        /\ sw.from_symbol # "none" => sw.bal[sw.from_symbol] > 0


\* the submissions of the invocation that address the DeFi router
DefiSubs == SelectSeq(subs, LAMBDA e : e.spender = "defi_router" \/ e.router = "defi_router")

\* C27: with a USDC balance below 80 USDC the DeFi router path is skipped:
\* no approval for the DeFi router and no swap on it is ever submitted, and
\* _execute_arc_defi_swap never gets past its balance check.
C27_DefiSkippedBelowThreshold ==
    (is_arc_network(sw.network_name) /\ sw.bal["USDC"] < 80 * OneToken) =>
        /\ DefiSubs = << >>
        /\ sw.stage # "arc_defi"
        /\ sw.tx.spender # "defi_router"

\* a wallet with 50 USDC passed allow_defi_router, the roll chose the DeFi
\* router, and _execute_arc_defi_swap returned False at its balance check
C27_Witness ==
    /\ is_arc_network(sw.network_name)
    /\ sw.bal["USDC"] >= 40 * OneToken
    /\ sw.bal["USDC"] < 80 * OneToken
    /\ sw.stage = "defi_skipped"
    /\ spc = "arc_dir"
    /\ subs = << >>


-----------------------------------------------------------------------------
(* run_continuous_operations and the background statistics task             *)

\* the counters an operation cycle writes
rawVars == <<wallets, wallet_stats, operation_weights, services, epc, cur, ret, calls>>

\* minutes since real_time_stats['start_time'], as the clock may report them
ElapsedMinutes == {0, 1, 2}

\* a recomputation that re-derives the total from the two outcome counters
recalculate_and_recount(stats, elapsed_minutes) ==
    [stats EXCEPT !.total_operations = stats.successful_operations
                                           + stats.failed_operations,
                  !.success_rate =
                      IF stats.total_operations > 0
                      THEN (stats.successful_operations * 10000) \div stats.total_operations
                      ELSE 0]

\* TransactionEngine._recalculate_real_time_stats
recalculate_real_time_stats(stats, elapsed_minutes) ==
    [stats EXCEPT !.operations_per_minute =
                      IF elapsed_minutes > 0
                      THEN (stats.total_operations * 100) \div elapsed_minutes
                      ELSE @,
                  !.success_rate =
                      IF stats.total_operations > 0
                      THEN (stats.successful_operations * 10000) \div stats.total_operations
                      ELSE 0]

\* wallet lists and network names handed to run_continuous_operations
RunWalletLists == {<<"w1">>, <<"w1", "w2">>, <<"ghost", "w1">>}
RunNetworks == {PharosAtlantic, BaseSepolia}

\* time.time() >= end_time: the duration has elapsed; it leaves room for at
\* most MaxCalls cycles
Expired == run.expired \/ calls >= MaxCalls

\* random.sample(wallet_names, len(wallet_names))
Shuffles(wallet_names) == {wallet_names, Reversed(wallet_names)}

\* run_continuous_operations, lines 311-321: the weights of the network are
\* installed and the clock is started
RunBegin(wallet_names, network_name) ==
    /\ rpc = "idle"
    /\ set_network_operation_weights(network_name)
    /\ rpc' = "while"
    /\ run' = [NoRun EXCEPT !.wallet_names = wallet_names,
                            !.network_name = network_name]

\* line 323: the while test, then the shuffle or _print_final_stats
RunWhile(order) ==
    /\ rpc = "while"
    /\ order \in Shuffles(run.wallet_names)
    /\ IF Expired
       THEN /\ rpc' = "done"
            /\ UNCHANGED run
       ELSE /\ rpc' = "for"
            /\ run' = [run EXCEPT !.shuffled_wallets = order]
    /\ UNCHANGED <<rawVars, real_time_stats>>

\* lines 327-329: the for loop is exhausted or broken by the clock
RunForEnd ==
    /\ rpc = "for"
    /\ run.shuffled_wallets = << >> \/ Expired
    /\ rpc' = "while"
    /\ run' = [run EXCEPT !.shuffled_wallets = << >>]
    /\ UNCHANGED <<rawVars, real_time_stats>>

\* line 332: execute_operation_cycle is called for the next wallet
RunCycle(r, pick, coin) ==
    /\ rpc = "for"
    /\ run.shuffled_wallets # << >>
    /\ ~Expired
    /\ CycleBegin(Head(run.shuffled_wallets), run.network_name, r, pick, coin)
    /\ rpc' = "await"
    /\ run' = [run EXCEPT !.shuffled_wallets = Tail(@)]

\* the executor awaited by the cycle returns or raises
RunCycleFinish(outcome) ==
    /\ rpc = "await"
    /\ CycleFinish(outcome)
    /\ UNCHANGED <<rpc, run>>

\* lines 332-341 after the cycle: an exception that left the cycle reaches
\* the handler of line 345 and ends the run; otherwise the cycle is counted,
\* the statistics are recomputed and the loop sleeps
RunAfterCycle(elapsed_minutes) ==
    /\ rpc = "await"
    /\ epc = "idle"
    /\ IF ret = "raised"
       THEN /\ rpc' = "failed"
            /\ UNCHANGED <<run, real_time_stats>>
       ELSE /\ rpc' = "sleep"
            /\ run' = [run EXCEPT !.operation_count = @ + 1]
            /\ real_time_stats' = recalculate_real_time_stats(real_time_stats,
                                                              elapsed_minutes)
    /\ UNCHANGED rawVars

\* asyncio.sleep(delay_seconds) is over
RunWake ==
    /\ rpc = "sleep"
    /\ rpc' = "for"
    /\ UNCHANGED <<rawVars, real_time_stats, run>>

\* the duration elapses while the loop waits for an executor or sleeps
RunClock ==
    /\ \/ rpc = "await" /\ epc = "executing"
       \/ rpc = "sleep"
    /\ ~run.expired
    /\ run' = [run EXCEPT !.expired = TRUE]
    /\ UNCHANGED <<rawVars, real_time_stats, rpc>>

\* _real_time_stats_loop: the task created by start_monitoring at the end of
\* initialize_services runs whenever the engine waits
real_time_stats_loop(elapsed_minutes) ==
    /\ services # {}
    /\ \/ epc = "executing"
       \/ rpc \in {"idle", "sleep", "done", "failed"}
    /\ real_time_stats' = recalculate_real_time_stats(real_time_stats, elapsed_minutes)
    /\ UNCHANGED <<rawVars, rpc, run>>

RunInit == EngineInit /\ SwapIdle

RunNext ==
    \/ /\ rpc = "idle"
       /\ \E name \in WalletNames : load_wallets(name)
       /\ UNCHANGED <<swapVars, rpc, run>>
    \/ /\ rpc = "idle"
       /\ initialize_services(<< >>)
       /\ UNCHANGED <<swapVars, rpc, run>>
    \/ /\ \E wallet_names \in RunWalletLists, n \in RunNetworks : RunBegin(wallet_names, n)
       /\ UNCHANGED swapVars
    \/ /\ \E order \in Shuffles(run.wallet_names) : RunWhile(order)
       /\ UNCHANGED swapVars
    \/ /\ RunForEnd
       /\ UNCHANGED swapVars
    \/ /\ rpc = "for"
       /\ \E r \in Draws(ActiveTable(run.network_name)), coin \in {0, 1} :
             RunCycle(r, Kinds[1], coin)
       /\ UNCHANGED swapVars
    \/ /\ \E outcome \in ExecutorOutcomes : RunCycleFinish(outcome)
       /\ UNCHANGED swapVars
    \/ /\ \E elapsed_minutes \in ElapsedMinutes : RunAfterCycle(elapsed_minutes)
       /\ UNCHANGED swapVars
    \/ /\ RunWake
       /\ UNCHANGED swapVars
    \/ /\ RunClock
       /\ UNCHANGED swapVars
    \/ /\ \E elapsed_minutes \in ElapsedMinutes : real_time_stats_loop(elapsed_minutes)
       /\ UNCHANGED swapVars

RunSpec == RunInit /\ [][RunNext]_vars

\* the steps of the coroutine itself: the event loop resumes it after every
\* await, and an awaited executor returns or raises
RunProgress ==
    \/ \E order \in Shuffles(run.wallet_names) : RunWhile(order)
    \/ RunForEnd
    \/ /\ rpc = "for"
       /\ \E r \in Draws(ActiveTable(run.network_name)), coin \in {0, 1} :
             RunCycle(r, Kinds[1], coin)
    \/ \E outcome \in ExecutorOutcomes : RunCycleFinish(outcome)
    \/ \E elapsed_minutes \in ElapsedMinutes : RunAfterCycle(elapsed_minutes)
    \/ RunWake

RunLiveSpec == RunSpec /\ WF_vars(RunProgress /\ UNCHANGED swapVars)

-----------------------------------------------------------------------------
(* Claims about the continuous run, checked under RunSpec and RunLiveSpec *)

RawCounters(stats) ==
    <<stats.total_operations, stats.successful_operations, stats.failed_operations>>

DerivedFigures(stats) == <<stats.operations_per_minute, stats.success_rate>>

\* C28: a step that changes the derived figures (operations_per_minute,
\* success_rate) is a statistics recomputation, and it leaves
\* total_operations, successful_operations and failed_operations as they
\* were, globally and for every wallet.
C28_RecomputationKeepsCounters ==
    [][ DerivedFigures(real_time_stats') # DerivedFigures(real_time_stats) =>
          /\ RawCounters(real_time_stats') = RawCounters(real_time_stats)
          /\ wallet_stats' = wallet_stats ]_vars

\* the background task recomputed while a second cycle was waiting for its
\* executor: 1 success out of 2 counted operations, 50 percent
C28_Witness ==
    /\ epc = "executing"
    /\ real_time_stats.total_operations = 2
    /\ real_time_stats.successful_operations = 1
    /\ real_time_stats.success_rate = 5000

\* C29: after a cycle of the continuous run has failed (returned false or
\* raised), either the run's duration elapses or the next cycle is started.
C29_NextCycleRuns ==
    \A n \in 0..MaxCalls :
        (rpc = "await" /\ epc = "idle" /\ ret \in {"false", "raised"} /\ calls = n)
            ~> (Expired \/ calls > n)


-----------------------------------------------------------------------------
(* Config.get_network_by_name *)

\* config.networks of the default configuration, in order
ConfigOrder == <<PharosAtlantic, RiseTestnet, OPNTestnet, ArcTestnet>>

\* str.replace(' ', '')
RemoveSpaces(s) == SelectSeq(s, LAMBDA c : c # " ")

\* the first network of config.networks among the positions that match,
\* << >> for None
FirstNetwork(matching) ==
    IF matching = {} THEN << >>
    ELSE ConfigOrder[CHOOSE i \in matching : \A j \in matching : i <= j]

\* Config.get_network_by_name: the name of the descriptor returned
get_network_by_name(network_name) ==
    LET network_name_lower == Lower(network_name)
        exact == {i \in 1..Len(ConfigOrder) :
                    \/ Lower(ConfigOrder[i]) = network_name_lower
                    \/ RemoveSpaces(Lower(ConfigOrder[i])) = RemoveSpaces(network_name_lower)}
        partial == {i \in 1..Len(ConfigOrder) :
                      \/ Contains(network_name_lower, Lower(ConfigOrder[i]))
                      \/ Contains(Lower(ConfigOrder[i]), network_name_lower)}
    IN IF exact # {} THEN FirstNetwork(exact) ELSE FirstNetwork(partial)

\* names handed to the lookup: full names, short names and their variants in
\* letter case and blanks
LookupNames ==
    { <<"A","r","c"," ","T","e","s","t","n","e","t">>,
      <<"a","r","c"," ","t","e","s","t","n","e","t">>,
      <<"A","R","C"," ","T","E","S","T","N","E","T">>,
      <<" ","A","r","c"," ","T","e","s","t","n","e","t"," ">>,
      <<"A","r","c","T","e","s","t","n","e","t">>,
      <<"A","r","c"," "," ","T","e","s","t","n","e","t">>,
      <<"a","r","c">>,
      <<" ","a","r","c">>,
      <<"A","r","c">>,
      <<"o","p","n">>,
      <<"O","P","N">>,
      <<" ","o","p","n"," ">>,
      <<"r","i","s","e">>,
      <<"p","h","a","r","o","s">>,
      <<"P","h","a","r","o","s"," ","A","t","l","a","n","t","i","c">>,
      <<"p","h","a","r","o","s","a","t","l","a","n","t","i","c">>,
      <<"B","a","s","e"," ","S","e","p","o","l","i","a">>,
      <<"b","a","s","e","s","e","p","o","l","i","a">>,
      <<>> }

LookupInit ==
    /\ EngineInit
    /\ chain = << >>
    /\ subs = << >>
    /\ sret = "none"
    /\ spc = "lookup"
    /\ \E first \in LookupNames, second \in LookupNames :
          sw = [first |-> first, second |-> second,
                found_first |-> << >>, found_second |-> << >>]

\* the two names are looked up
Lookup ==
    /\ spc = "lookup"
    /\ spc' = "found"
    /\ sw' = [sw EXCEPT !.found_first = get_network_by_name(sw.first),
                        !.found_second = get_network_by_name(sw.second)]
    /\ UNCHANGED <<chain, subs, sret>>

LookupNext == Lookup /\ UNCHANGED engineVars

LookupSpec == LookupInit /\ [][LookupNext]_vars

-----------------------------------------------------------------------------
(* Claims about the network lookup, checked under LookupSpec *)

\* the two names differ only in letter case and in blanks
SameUpToCaseAndBlanks(a, b) == RemoveSpaces(Lower(a)) = RemoveSpaces(Lower(b))

\* C30: two names that differ only in letter case or in leading, trailing or
\* inner whitespace are resolved to the same network descriptor, or both to
\* none.
C30_LookupToleratesVariance ==
    (spc = "found" /\ SameUpToCaseAndBlanks(sw.first, sw.second)) =>
        sw.found_first = sw.found_second


-----------------------------------------------------------------------------
(* Termination of execute_random_swap.  The awaited steps of one invocation  *)
(* are taken one after the other by the event loop, and every wait for a     *)
(* receipt carries a timeout, so an enabled step is eventually taken.        *)

SwapLiveSpec == SwapSpec /\ WF_vars(SwapNext)

\* the attempts of one pass of _execute_arc_swap: the DeFi router, the Curve
\* router, the Universal router (or the WUSDC withdrawal) and the Curve
\* fallback; each submits at most an approval and a swap
ArcAttempts == {"arc_defi", "arc_curve", "arc_uni", "arc_fb"}

\* submissions of the pass with the given _retry
PassSubmissions(retry) == {i \in DOMAIN subs : subs[i].retry = retry}

\* swap transactions submitted for one direction of the Pharos loop
PairSubmissions(p) ==
    {i \in DOMAIN subs : /\ subs[i].kind = "swap"
                         /\ subs[i].router = "bitverse_router"
                         /\ <<subs[i].src, subs[i].dst>> = p}

\* a step that enters _execute_arc_swap from inside itself
ArcReenters == spc' = "arc" /\ spc # "start"

\* a step of the Pharos loop that visits a direction
PharosVisits == spc = "pharos_loop" /\ spc' # "done"

\* C31: every execute_random_swap invocation returns, having submitted a
\* bounded number of transactions: at most an approval and a swap for each of
\* the four Pharos directions, each direction visited at most once; at most
\* an approval and a transaction for each attempt of an Arc pass;
\* _execute_arc_swap re-enters itself only from a pass with _retry unset, and
\* the pass it enters has _retry set, which is never unset again.
C31_TerminatesBoundedSubmissions ==
    /\ [](/\ sw.router_type = "pharos_bitverse" =>
                /\ Len(subs) <= 2 * Cardinality(swap_pairs)
                /\ \A p \in swap_pairs : Cardinality(PairSubmissions(p)) <= 1
          /\ sw.router_type = "arc_universal" =>
                \A retry \in BOOLEAN :
                    Cardinality(PassSubmissions(retry)) <= 2 * Cardinality(ArcAttempts)
          /\ sw.router_type \in {"iopn", "none"} => Len(subs) <= 3)
    /\ [][ /\ sw.retry => sw'.retry
           /\ ArcReenters => ~sw.retry /\ sw'.retry
           /\ PharosVisits => (sw'.pairs \subseteq sw.pairs /\ sw'.pairs # sw.pairs)
         ]_vars
    /\ <>(spc = "done")

\* an Arc invocation returned false after a re-rolled pass, with submissions
\* in both passes
C31_Witness ==
    /\ spc = "done"
    /\ sret = "false"
    /\ sw.retry
    /\ PassSubmissions(FALSE) # {}
    /\ PassSubmissions(TRUE) # {}


-----------------------------------------------------------------------------
(* Further claims about execute_random_swap, checked under SwapSpec *)

\* a step from a returned allowance routine to the building of a swap
SwapFollowsApproval == spc = "approved" /\ spc' = "send" /\ sw'.tx.kind = "swap"

\* C32: for every token-sourced swap, the spender for which the allowance
\* was checked and granted is the contract the following swap transaction is
\* sent to, on the primary, the fallback and the DeFi router paths.
C32_SpenderIsSwapTarget ==
    [][ SwapFollowsApproval => sw.tx.spender = sw'.tx.router ]_vars


-----------------------------------------------------------------------------
(* Further claims about the TransactionEngine, checked under Spec *)

Concluded(stats) == stats.successful_operations + stats.failed_operations

\* concluded operations never exceed attempted ones, and at most one attempted
\* operation is not yet concluded
WithinOne(stats) ==
    /\ Concluded(stats) <= stats.total_operations
    /\ stats.total_operations <= Concluded(stats) + 1

ConfirmedLegs ==
    {i \in DOMAIN subs : /\ subs[i].kind \in {"swap", "wrap", "unwrap"}
                         /\ subs[i].status = "success"}

\* C34: if execute_random_swap returns false, no swap, wrap or unwrap
\* submitted during that invocation was confirmed successfully, the two-leg
\* OPN token -> token path included.
C34_FalseHidesNoConfirmedLeg ==
    (spc = "done" /\ sret = "false") => ConfirmedLegs = {}


\* C35: when the weight table has a positive total, weighted_choice never
\* returns a kind whose weight is zero, for any draw of [0, total], both
\* endpoints included.  Stated on the kind every cycle drew.
C35_NoZeroWeightKindDrawn ==
    (epc = "executing" /\ cur.method = "cycle" /\ WeightSum(operation_weights) > 0) =>
        operation_weights[cur.operation_type] > 0


\* sum of one counter over the entries of a statistics table
RECURSIVE SumOver(_, _, _)
SumOver(stats, names, field) ==
    IF names = {} THEN 0
    ELSE LET w == CHOOSE x \in names : TRUE
         IN stats[w][field] + SumOver(stats, names \ {w}, field)

CounterFields == {"total_operations", "successful_operations", "failed_operations"}

\* every global counter is the sum of the per-wallet counters
SumsAgree(global, stats) ==
    \A field \in CounterFields : global[field] = SumOver(stats, DOMAIN stats, field)

\* C36: after any sequence of operations, each global counter
\* (total_operations, successful_operations, failed_operations) equals the sum
\* of the corresponding per-wallet counters over all wallets.
C36_GlobalIsSumOfWallets ==
    epc = "idle" => SumsAgree(real_time_stats, wallet_stats)


\* a step in which a call begins and ends at once: it never reached dispatch
ReturnsAtOnce == calls' = calls + 1 /\ epc = "idle" /\ epc' = "idle"

\* the counters of the engine are left as they were and the call returned false
RejectedCleanly == ret' = "false" /\ UNCHANGED <<real_time_stats, wallet_stats>>

\* C37: a request rejected before dispatch (an unknown wallet name in
\* execute_operation_cycle or run_single_operation, or an unknown operation
\* type in run_single_operation) returns false and leaves every global and
\* per-wallet counter unchanged: a step that returns at once otherwise is the
\* handling of no such request.
C37_RejectedLeavesCounters ==
    [][ (ReturnsAtOnce /\ ~RejectedCleanly) =>
          /\ \A w \in CallerWalletNames \ wallets, n \in CallerNetworks :
                ~CycleBegin(w, n, 0, Kinds[1], 0)
          /\ \A w \in CallerWalletNames, n \in CallerNetworks,
                t \in CallerOperationTypes :
                (w \notin wallets \/ t \notin KindSet) => ~SingleBegin(w, n, t, 0)
      ]_vars

\* the first call of an initialized engine was a run_single_operation that
\* was rejected: it returned false and no counter moved
C37_Witness ==
    /\ epc = "idle"
    /\ calls = 1
    /\ cur.method = "single"
    /\ ret = "false"
    /\ "w1" \in DOMAIN wallet_stats
    /\ real_time_stats = ZeroRealTimeStats
    /\ wallet_stats["w1"] = ZeroStats


-----------------------------------------------------------------------------
(* Further claims about _execute_arc_swap, checked under SwapSpec *)

\* transactions submitted to the Curve router, by the primary attempt or by
\* the fallback
CurveSubmissions == {i \in DOMAIN subs : subs[i].router = "curve_router"}

\* C38: no Curve-router swap on Arc, the primary attempt or the fallback, is
\* ever submitted with a blacklisted symbol (TST, EURC, CA4F) as its source
\* or its target.
C38_NoBlacklistedCurveSwap ==
    \A i \in CurveSubmissions :
        subs[i].src \notin curve_blacklist /\ subs[i].dst \notin curve_blacklist


-----------------------------------------------------------------------------
(* The scheduler's executor lookup against Config.get_network_by_name:     *)
(* execute_operation_cycle driven with names the registry resolves          *)

arc_testnet_lower == <<"a","r","c"," ","t","e","s","t","n","e","t">>

\* names handed to execute_operation_cycle: configured names as written, in
\* lower case and in short form
DispatchNames == {PharosAtlantic, OPNTestnet, ArcTestnet, arc_testnet_lower, s_arc, s_opn}

\* get_network_by_name over DispatchNames, evaluated once
Resolved == [n \in DispatchNames |-> get_network_by_name(n)]

DispatchNext ==
    \/ /\ \E name \in WalletNames : load_wallets(name)
       /\ UNCHANGED <<swapVars, rpc, run>>
    \/ /\ \E target \in {<<>>, ArcTestnet} : initialize_services(target)
       /\ UNCHANGED <<swapVars, rpc, run>>
    \/ /\ \E w \in CallerWalletNames, n \in DispatchNames :
            \E r \in Draws(ActiveTable(n)), coin \in {0, 1} :
               \E pick \in (IF WeightSum(ActiveTable(n)) = 0 THEN KindSet ELSE {Kinds[1]}) :
                  CycleBegin(w, n, r, pick, coin)
       /\ UNCHANGED <<swapVars, rpc, run>>
    \/ /\ \E outcome \in ExecutorOutcomes : CycleFinish(outcome)
       /\ UNCHANGED <<swapVars, rpc, run>>

DispatchSpec == Init /\ [][DispatchNext]_vars

\* C39: when the registry resolves the name a cycle runs with to a network
\* whose services were initialized, the cycle invokes the executor it chose
\* instead of ending with "service not available".
C39_DispatchFollowsRegistry ==
    [][ (CycleReturns /\ Resolved[cur.network] \in services) =>
            cur'.invoked = cur.executor ]_vars

=============================================================================
